---------------------------- MODULE Spec2Model ----------------------------
(* A model of score.tpl's ConfiguredTplModule (src/score/tpl/_init.py) and  *)
(* of the loaders it dispatches to (src/score/tpl/loader.py).               *)
(*                                                                          *)
(* Strings (paths, file names, extensions) are sequences of one-character   *)
(* strings, so that basename, split, join and rfind are computed on         *)
(* characters as the Python code computes them.                             *)
EXTENDS Integers, Sequences, FiniteSets, TLC

VARIABLES
    conf,        \* the filetype.<extension>.mimetype entries given to init()
    rootdirs,    \* ConfiguredTplModule.rootdirs
    filetypes,   \* ConfiguredTplModule.filetypes, in insertion order
    loaders,     \* ConfiguredTplModule.loaders : [cls, items]
    engines,     \* ConfiguredTplModule.engines : [cls, items]
    renderers,   \* ConfiguredTplModule._renderers : set of <<engine, mimetype>>
    last,        \* the last call made on the module and how it ended
    disk,        \* the content of the files under the root directory
    threads,     \* the _find_renderers calls of concurrent contexts: where each is
    constructed, \* the engine factory calls of those contexts, in order
    hub,         \* the Renderer of score/tpl/__init__.py, the hub of rendering
    generic,     \* a GenericRenderer of score/tpl/jinja2/engine.py
    fallback     \* the Renderer of score/tpl/fallback.py and what its backends got

vars == <<conf, rootdirs, filetypes, loaders, engines, renderers, last,
          disk, threads, constructed, hub, generic, fallback>>

-----------------------------------------------------------------------------
(* Bounds of the model *)

\* the longest path handed to the name-resolution functions
MaxPathLen == 5
\* the most extensions one FileType's list holds
MaxExts == 2
\* the most loaders one loader list holds
MaxLoaders == 2
\* the most registrations (extensions, postprocessors, globals, engines,
\* loader keys, loaders) made after init()
MaxRegs == 2
\* the most filetype.<extension>.mimetype entries given to init()
MaxConf == 2
\* the number of contexts that call into the module concurrently
MaxThreads == 2

-----------------------------------------------------------------------------
(* Strings *)

Chars == {"t", "g", ".", "/"}

\* all strings of at most n characters
Strings(n) == UNION {[1..k -> Chars] : k \in 0..n}

Max(S) == CHOOSE x \in S : \A y \in S : y <= x
Min(S) == CHOOSE x \in S : \A y \in S : x <= y
Range(s) == {s[i] : i \in DOMAIN s}
InList(x, s) == \E i \in DOMAIN s : s[i] = x

\* F applied to a value that is computed once
With(v, F(_)) == F(v)

\* str.find(c) and str.rfind(c) of one character, 1-based, 0 when absent
FirstIndexOf(s, c) ==
    LET I == {i \in 1..Len(s) : s[i] = c} IN IF I = {} THEN 0 ELSE Min(I)
LastIndexOf(s, c) ==
    LET I == {i \in 1..Len(s) : s[i] = c} IN IF I = {} THEN 0 ELSE Max(I)

\* c in s
HasChar(s, c) == FirstIndexOf(s, c) # 0

\* os.path.basename(path): what follows the last slash
basename(path) == SubSeq(path, LastIndexOf(path, "/") + 1, Len(path))

\* str.split(c)
RECURSIVE split(_, _)
split(s, c) ==
    LET i == FirstIndexOf(s, c)
    IN  IF i = 0 THEN <<s>>
        ELSE <<SubSeq(s, 1, i - 1)>> \o split(SubSeq(s, i + 1, Len(s)), c)

\* str.split(c, maxsplit=1)
split1(s, c) ==
    LET i == FirstIndexOf(s, c)
    IN  IF i = 0 THEN <<s>>
        ELSE <<SubSeq(s, 1, i - 1), SubSeq(s, i + 1, Len(s))>>

\* c.join(parts)
RECURSIVE join(_, _)
join(c, parts) ==
    IF parts = <<>> THEN <<>>
    ELSE IF Len(parts) = 1 THEN parts[1]
    ELSE parts[1] \o <<c>> \o join(c, Tail(parts))

\* str.lstrip('/')
RECURSIVE lstrip(_)
lstrip(s) == IF s # <<>> /\ s[1] = "/" THEN lstrip(Tail(s)) ELSE s

-----------------------------------------------------------------------------
(* The names the model registers and asks for *)

gz     == <<"g">>
tpl    == <<"t">>
tar_gz == <<"t", ".", "g">>
sl_gz  == <<"/", "g">>

\* the extension strings registrations draw from
Exts == {gz, tpl, tar_gz, sl_gz}

Mimetypes == {"text/plain", "text/xml"}

\* engine factories
Factories == {"F1", "F2"}
\* the factories used where templates are rendered: the renderers F1 and F2
\* make return a result, those F3 makes raise
RenderFactories == {"F1", "F2", "F3"}
Raising == {"F3"}


-----------------------------------------------------------------------------
(* The file system the FileSystemLoader looks at: one tree, given by the    *)
(* absolute paths of its directories and files, each a sequence of names.   *)

root_r == <<"/", "r">>

DiskDirs == {<<>>, <<<<"r">>>>, <<<<"r">>, <<"t">>>>}

DiskFiles ==
    { <<<<"r">>, <<"g", ".", "g">>>>,
      <<<<"r">>, <<"g", ".", "t", ".", "g">>>>,
      <<<<"r">>, <<"g", ".", "g", ".", "t", ".", "g">>>>,
      <<<<"r">>, <<"g", ".", "t">>>>,
      <<<<"r">>, <<"t">>, <<"g", ".", "g">>>>,
      <<<<"g", ".", "g">>>> }

\* what a file may hold, and what the files hold at first
Contents == {"a", "b"}
InitialDisk == [f \in DiskFiles |-> "a"]

\* what the disk holds in the place of a file that was removed, and the files
\* that are there
Unlinked == "unlinked"
Present(f) == f \in DiskFiles /\ disk[f] # Unlinked

\* no renderer object has been made
NoRenderer == <<>>

\* the concurrent contexts, and none of them inside a call
Threads == 1..MaxThreads
Idle ==
    [pc |-> "idle", filename |-> <<>>, mimetype |-> "", chain |-> <<>>,
     pending |-> <<>>]
NoThreads == [t \in Threads |-> Idle]

dotdot == <<".", ".">>

\* os.path.normpath of an absolute path, as the list of its names
RECURSIVE normnames(_, _)
normnames(done, names) ==
    IF names = <<>> THEN done
    ELSE LET c == Head(names)
         IN  IF c = <<>> \/ c = <<".">> THEN normnames(done, Tail(names))
             ELSE IF c = dotdot
                  THEN normnames(IF done = <<>> THEN <<>>
                                 ELSE SubSeq(done, 1, Len(done) - 1), Tail(names))
             ELSE normnames(Append(done, c), Tail(names))

abspath(p) == normnames(<<>>, split(p, "/"))

\* the length of the longest common prefix of two lists of names
RECURSIVE commonprefix(_, _)
commonprefix(a, b) ==
    IF a = <<>> \/ b = <<>> \/ Head(a) # Head(b) THEN 0
    ELSE 1 + commonprefix(Tail(a), Tail(b))

\* os.path.relpath(path, start), as the list of its names (<<>> stands for '.')
relpath(path, start) ==
    LET start_list == abspath(start)
        path_list  == abspath(path)
        i          == commonprefix(start_list, path_list)
    IN  [k \in 1..(Len(start_list) - i) |-> dotdot]
            \o SubSeq(path_list, i + 1, Len(path_list))

\* relpath.startswith(os.pardir + os.sep)
startswith_pardir(rel) == Len(rel) >= 2 /\ rel[1] = dotdot

\* os.path.exists: the names are followed one by one from the root
RECURSIVE walk(_, _)
walk(cur, names) ==
    IF names = <<>> THEN TRUE
    ELSE IF Present(cur) THEN FALSE
    ELSE LET c == Head(names)
         IN  IF c = <<>> \/ c = <<".">> THEN walk(cur, Tail(names))
             ELSE IF c = dotdot
                  THEN walk(IF cur = <<>> THEN <<>>
                            ELSE SubSeq(cur, 1, Len(cur) - 1), Tail(names))
             ELSE /\ Append(cur, c) \in DiskDirs \/ Present(Append(cur, c))
                  /\ walk(Append(cur, c), Tail(names))

exists(p) == walk(<<>>, split(p, "/"))

-----------------------------------------------------------------------------
(* Loaders *)

None == <<>>

\* a search that goes through the root directories from the last to the first
RECURSIVE find_file_from_last(_, _)
find_file_from_last(dirs, path) ==
    IF dirs = <<>> THEN None
    ELSE LET rootdir  == dirs[Len(dirs)]
             fullpath == rootdir \o <<"/">> \o lstrip(path)
         IN  IF startswith_pardir(relpath(fullpath, rootdir))
             THEN find_file_from_last(SubSeq(dirs, 1, Len(dirs) - 1), path)
             ELSE IF exists(fullpath) THEN fullpath
             ELSE find_file_from_last(SubSeq(dirs, 1, Len(dirs) - 1), path)

\* FileSystemLoader._find_file: the full path in the first root directory
\* that holds the path, None when no root does
RECURSIVE find_file_from(_, _)
find_file_from(dirs, path) ==
    IF dirs = <<>> THEN None
    ELSE LET rootdir  == Head(dirs)
             fullpath == rootdir \o <<"/">> \o lstrip(path)
         IN  IF startswith_pardir(relpath(fullpath, rootdir))
             THEN find_file_from(Tail(dirs), path)
             ELSE IF exists(fullpath) THEN fullpath
             ELSE find_file_from(Tail(dirs), path)

find_file(path) == find_file_from(rootdirs, path)

\* the loader objects: the FileSystemLoader of an extension, and the two
\* unittest.mock.Mock loaders of the tests (a Mock's is_valid() is truthy)
FileSystemLoader(key) == [cls |-> "FileSystemLoader", extension |-> key, load |-> "file"]
MockLoaders ==
    { [cls |-> "Mock", extension |-> <<>>, load |-> "foo"],
      [cls |-> "Mock", extension |-> <<>>, load |-> "TemplateNotFound"] }

\* loader.is_valid(path)
is_valid(loader, path) ==
    IF loader.cls = "FileSystemLoader" THEN find_file(path) # None ELSE TRUE

\* loader.load(path): (is_file, result) or TemplateNotFound
loader_load(loader, path) ==
    IF loader.cls = "FileSystemLoader"
    THEN With(find_file(path), LAMBDA file :
             IF file # None
             THEN [err |-> "none", is_file |-> TRUE, result |-> file]
             ELSE [err |-> "TemplateNotFound", is_file |-> FALSE, result |-> <<>>])
    ELSE IF loader.load = "foo"
         THEN [err |-> "none", is_file |-> FALSE, result |-> <<"f", "o", "o">>]
         ELSE [err |-> "TemplateNotFound", is_file |-> FALSE, result |-> <<>>]

-----------------------------------------------------------------------------
(* The registries: dictionaries in insertion order, as lists of items *)

\* key in d
HasKey(d, key) == \E i \in DOMAIN d.items : d.items[i].key = key
\* d[key], for a key of d
Get(d, key) == d.items[CHOOSE i \in DOMAIN d.items : d.items[i].key = key].value
\* list(d)
Keys(d) == [i \in DOMAIN d.items |-> d.items[i].key]
\* dict.__setitem__: a new key goes last, a known key keeps its place
Put(d, key, value) ==
    IF HasKey(d, key)
    THEN [d EXCEPT !.items = [i \in DOMAIN d.items |->
                IF d.items[i].key = key THEN [key |-> key, value |-> value]
                ELSE d.items[i]]]
    ELSE [d EXCEPT !.items = Append(d.items, [key |-> key, value |-> value])]

\* FileType.__init__
FileType(mimetype) ==
    [mimetype |-> mimetype, extensions |-> <<>>, postprocessors |-> <<>>,
     globals |-> <<>>, finalized |-> FALSE]

\* mimetype in self.filetypes
HasFiletype(mimetype) == \E i \in DOMAIN filetypes : filetypes[i].mimetype = mimetype

\* FileTypes.__missing__: the filetypes after self.filetypes[mimetype]
FileTypes_get(mimetype) ==
    IF HasFiletype(mimetype) THEN filetypes
    ELSE Append(filetypes, FileType(mimetype))

FiletypeIndex(fts, mimetype) == CHOOSE i \in DOMAIN fts : fts[i].mimetype = mimetype

\* Loaders.__missing__: the loader list a first access creates
Loaders_missing(key) ==
    IF rootdirs # <<>> THEN <<FileSystemLoader(key)>> ELSE <<>>

-----------------------------------------------------------------------------
(* Name resolution: ConfiguredTplModule._find_filetype and _find_loader *)

\* a lookup that walks i upwards and so prefers the shortest extension
find_filetype_shortest(extensions, i) ==
    LET hits == {n \in 1..i : \E k \in DOMAIN filetypes :
                    InList(join(".", SubSeq(extensions, 1, n)), filetypes[k].extensions)}
    IN  IF hits = {} THEN [err |-> "TemplateNotFound", mimetype |-> ""]
        ELSE [err |-> "none", mimetype |->
                filetypes[Min({k \in DOMAIN filetypes :
                    InList(join(".", SubSeq(extensions, 1, Min(hits))),
                           filetypes[k].extensions)})].mimetype]

\* _find_filetype, the loop over i: the first FileType, in insertion order,
\* that lists the first i extension parts joined with dots
RECURSIVE find_filetype_from(_, _)
find_filetype_from(extensions, i) ==
    IF i = 0 THEN [err |-> "TemplateNotFound", mimetype |-> ""]
    ELSE LET extension == join(".", SubSeq(extensions, 1, i))
             found == {k \in DOMAIN filetypes :
                          InList(extension, filetypes[k].extensions)}
         IN  IF found # {}
             THEN [err |-> "none", mimetype |-> filetypes[Min(found)].mimetype]
             ELSE find_filetype_from(extensions, i - 1)

\* a lookup whose range starts one short: all the parts joined are not tried
find_filetype_short_range(path) ==
    LET filename   == basename(path)
        extensions == Tail(split(filename, "."))
    IN  find_filetype_from(extensions, Max({Len(extensions) - 1, 0}))

\* a lookup that falls back to the first FileType
find_filetype_fallback(path) ==
    IF filetypes = <<>> THEN [err |-> "TemplateNotFound", mimetype |-> ""]
    ELSE IF find_filetype_from(Tail(split(basename(path), ".")),
                               Len(Tail(split(basename(path), ".")))).err = "none"
    THEN find_filetype_from(Tail(split(basename(path), ".")),
                            Len(Tail(split(basename(path), "."))))
    ELSE [err |-> "none", mimetype |-> filetypes[1].mimetype]

find_filetype(path) ==
    LET filename   == basename(path)
        extensions == Tail(split(filename, "."))
    IN  find_filetype_from(extensions, Len(extensions))

\* a lookup without the while loop: nothing is folded into the stem
fold_never(rest) == None

\* _find_loader, the while loop: the leading part of rest is folded into
\* the stem until rest is a loader key; None when the dots run out
RECURSIVE fold_to_key(_)
fold_to_key(rest) ==
    IF ~HasChar(rest, ".") THEN None
    ELSE LET more_parts == split1(rest, ".")
         IN  IF HasKey(loaders, more_parts[2]) THEN <<more_parts[2]>>
             ELSE fold_to_key(more_parts[2])

\* _find_loader, up to the loader list: <<key>> for the loader key the name
\* resolves to, None when it resolves to none
find_loader_key(path) ==
    LET parts == split1(basename(path), ".")
    IN  IF Len(parts) = 1 THEN None
        ELSE IF HasKey(loaders, parts[2]) THEN <<parts[2]>>
        ELSE fold_to_key(parts[2])

\* a lookup that returns the last valid loader of the list
RECURSIVE last_valid(_, _)
last_valid(list, path) ==
    IF list = <<>> THEN [err |-> "TemplateNotFound", loader |-> FileSystemLoader(<<>>)]
    ELSE IF is_valid(list[Len(list)], path)
    THEN [err |-> "none", loader |-> list[Len(list)]]
    ELSE last_valid(SubSeq(list, 1, Len(list) - 1), path)

\* the first loader of the list that says the path is valid
RECURSIVE first_valid(_, _)
first_valid(list, path) ==
    IF list = <<>> THEN [err |-> "TemplateNotFound", loader |-> FileSystemLoader(<<>>)]
    ELSE IF is_valid(Head(list), path) THEN [err |-> "none", loader |-> Head(list)]
    ELSE first_valid(Tail(list), path)

find_loader(path) ==
    With(find_loader_key(path), LAMBDA key :
        IF key = None
        THEN [err |-> "TemplateNotFound", loader |-> FileSystemLoader(<<>>)]
        ELSE first_valid(Get(loaders, key[1]), path))

\* ConfiguredTplModule.load
load(path) ==
    With(find_loader(path), LAMBDA found :
        IF found.err # "none"
        THEN [err |-> found.err, is_file |-> FALSE, result |-> <<>>, calls |-> <<>>]
        ELSE With(loader_load(found.loader, path), LAMBDA got :
                 [err |-> got.err, is_file |-> got.is_file, result |-> got.result,
                  calls |-> <<[call |-> "load", on |-> found.loader, arg |-> path]>>]))

-----------------------------------------------------------------------------
(* Renderer chains: ConfiguredTplModule._find_renderers *)

\* str.rfind(sub), 1-based, 0 when absent
rfind(s, sub) ==
    LET I == {i \in 1..(Len(s) - Len(sub) + 1) :
                 SubSeq(s, i, i + Len(sub) - 1) = sub}
    IN  IF I = {} THEN 0 ELSE Max(I)

\* the candidates of one round: the engine items whose '.extension' occurs
\* in the file name, each with the place of its last occurrence
candidates(filename) ==
    {[extension |-> engines.items[k].key,
      idx       |-> rfind(filename, <<".">> \o engines.items[k].key),
      engine    |-> engines.items[k].value] : k \in
        {j \in DOMAIN engines.items :
            rfind(filename, <<".">> \o engines.items[j].key) # 0}}

\* a choice that prefers, among the candidates ending right-most, the
\* shortest extension
best_candidate_shortest(cands) ==
    CHOOSE c \in cands : \A d \in cands :
        \/ d.idx + Len(d.extension) < c.idx + Len(c.extension)
        \/ /\ d.idx + Len(d.extension) = c.idx + Len(c.extension)
           /\ Len(d.extension) >= Len(c.extension)

\* sorted(candidates, key=(idx + len, len), reverse=True)[0]
best_candidate(cands) ==
    CHOOSE c \in cands : \A d \in cands :
        \/ d.idx + Len(d.extension) < c.idx + Len(c.extension)
        \/ /\ d.idx + Len(d.extension) = c.idx + Len(c.extension)
           /\ Len(d.extension) <= Len(c.extension)

\* filename[:len(extension) + 1]
truncate(filename, extension) ==
    SubSeq(filename, 1, Min({Len(filename), Len(extension) + 1}))

\* a loop that calls the engine factory in every round, cached or not
RECURSIVE find_renderers_uncached(_, _, _, _, _)
find_renderers_uncached(filename, mimetype, chain, cache, made) ==
    With(candidates(filename), LAMBDA cands :
        IF cands = {}
        THEN [err |-> "none", chain |-> chain, cache |-> cache, made |-> made]
        ELSE With(best_candidate(cands), LAMBDA c :
             LET renderer == <<c.engine, mimetype>>
                 shorter  == truncate(filename, c.extension)
             IN  IF shorter = filename
                 THEN [err |-> "hang", chain |-> Append(chain, renderer),
                       cache |-> cache \cup {renderer}, made |-> Append(made, renderer)]
                 ELSE find_renderers_uncached(shorter, mimetype,
                          Append(chain, renderer), cache \cup {renderer},
                          Append(made, renderer))))

\* the while loop: the renderers found so far, the cache, and the engine
\* factories called; the loop does not end when a round leaves the file
\* name as it was
RECURSIVE find_renderers_from(_, _, _, _, _)
find_renderers_from(filename, mimetype, chain, cache, made) ==
    With(candidates(filename), LAMBDA cands :
        IF cands = {}
        THEN [err |-> "none", chain |-> chain, cache |-> cache, made |-> made]
        ELSE With(best_candidate(cands), LAMBDA c :
             LET renderer == <<c.engine, mimetype>>
                 shorter  == truncate(filename, c.extension)
                 cache2   == cache \cup {renderer}
                 made2    == IF renderer \in cache THEN made
                             ELSE Append(made, renderer)
             IN  IF shorter = filename
                 THEN [err |-> "hang", chain |-> Append(chain, renderer),
                       cache |-> cache2, made |-> made2]
                 ELSE find_renderers_from(shorter, mimetype,
                          Append(chain, renderer), cache2, made2)))

find_renderers(path, mimetype) ==
    find_renderers_from(basename(path), mimetype, <<>>, renderers, <<>>)

-----------------------------------------------------------------------------
(* Rendering: ConfiguredTplModule.render *)

\* a content value is the list of the steps that made it
Located(file)  == <<[step |-> "location", by |-> file]>>
Inline(string) == <<[step |-> "inline", by |-> string]>>

\* a loop that never clears is_file: every renderer of a file result gets
\* render_file
RECURSIVE run_chain_all_files(_, _, _, _)
run_chain_all_files(chain, is_file, result, done) ==
    IF chain = <<>>
    THEN [err |-> "none", is_file |-> FALSE, result |-> result, rendering |-> done]
    ELSE LET method == IF is_file THEN "render_file" ELSE "render_string"
             out    == Append(result, [step |-> method, by |-> Head(chain)])
             called == Append(done, [method |-> method, renderer |-> Head(chain),
                                     input |-> result])
         IN  IF Head(chain)[1] \in Raising
             THEN [err |-> "RenderError", is_file |-> is_file, result |-> <<>>,
                   rendering |-> called]
             ELSE run_chain_all_files(Tail(chain), is_file, out, called)

\* a loop that goes on after a renderer has raised
RECURSIVE run_chain_lenient(_, _, _, _)
run_chain_lenient(chain, is_file, result, done) ==
    IF chain = <<>>
    THEN [err |-> "none", is_file |-> is_file, result |-> result, rendering |-> done]
    ELSE LET method == IF is_file THEN "render_file" ELSE "render_string"
             out    == Append(result, [step |-> method, by |-> Head(chain)])
             called == Append(done, [method |-> method, renderer |-> Head(chain),
                                     input |-> result])
         IN  run_chain_lenient(Tail(chain), FALSE, out, called)

\* the for loop of render over the chain: the first renderer of a file
\* result gets render_file, every other one render_string; an error raised
\* by a renderer ends the loop
RECURSIVE run_chain(_, _, _, _)
run_chain(chain, is_file, result, done) ==
    IF chain = <<>>
    THEN [err |-> "none", is_file |-> is_file, result |-> result, rendering |-> done]
    ELSE LET method == IF is_file THEN "render_file" ELSE "render_string"
             out    == Append(result, [step |-> method, by |-> Head(chain)])
             called == Append(done, [method |-> method, renderer |-> Head(chain),
                                     input |-> result])
         IN  IF Head(chain)[1] \in Raising
             THEN [err |-> "RenderError", is_file |-> is_file, result |-> <<>>,
                   rendering |-> called]
             ELSE run_chain(Tail(chain), FALSE, out, called)

\* open(result).read()
read_file(result) ==
    IF Present(abspath(result[1].by))
    THEN [err |-> "none",
          result |-> Append(result, [step |-> "read",
                                     by |-> <<disk[abspath(result[1].by)]>>])]
    ELSE IF abspath(result[1].by) \in DiskDirs
    THEN [err |-> "IsADirectoryError", result |-> <<>>]
    ELSE [err |-> "FileNotFoundError", result |-> <<>>]

\* a loop over the postprocessors from the last to the first
RECURSIVE postprocess_reversed(_, _)
postprocess_reversed(postprocessors, result) ==
    IF postprocessors = <<>> THEN result
    ELSE postprocess_reversed(SubSeq(postprocessors, 1, Len(postprocessors) - 1),
             Append(result, [step |-> "postprocessor",
                             by |-> <<postprocessors[Len(postprocessors)]>>]))

\* the for loop of render over the postprocessors
RECURSIVE postprocess(_, _)
postprocess(postprocessors, result) ==
    IF postprocessors = <<>> THEN result
    ELSE postprocess(Tail(postprocessors),
             Append(result, [step |-> "postprocessor", by |-> <<Head(postprocessors)>>]))

NoOutcome ==
    [err |-> "none", value |-> <<>>, loads |-> <<>>, made |-> <<>>,
     rendering |-> <<>>, cache |-> renderers]

\* render behind its call of load: the chain of renderers, the read of a
\* file that no renderer took, and the postprocessors
render_loaded(path, mimetype, got, apply_postprocessors) ==
    With(find_renderers(path, mimetype), LAMBDA found :
    IF found.err # "none"
    THEN [NoOutcome EXCEPT !.err = found.err, !.loads = got.calls,
                           !.made = found.made, !.cache = found.cache]
    ELSE
    With(run_chain(found.chain, got.is_file,
                   IF got.is_file THEN Located(got.result) ELSE Inline(got.result),
                   <<>>), LAMBDA ran :
    IF ran.err # "none"
    THEN [NoOutcome EXCEPT !.err = ran.err, !.loads = got.calls,
                           !.made = found.made, !.rendering = ran.rendering,
                           !.cache = found.cache]
    ELSE
    With(IF ran.is_file THEN read_file(ran.result)
         ELSE [err |-> "none", result |-> ran.result], LAMBDA text :
        [err       |-> text.err,
         value     |-> IF text.err # "none" THEN <<>>
                       ELSE IF apply_postprocessors
                            THEN postprocess(
                                filetypes[FiletypeIndex(filetypes, mimetype)].postprocessors,
                                text.result)
                            ELSE text.result,
         loads     |-> got.calls,
         made      |-> found.made,
         rendering |-> ran.rendering,
         cache     |-> found.cache])))

\* render(path, apply_postprocessors=...): how the call ends, what it
\* returns, the calls it makes on loaders, engine factories and renderers,
\* and the renderer cache it leaves
render(path, apply_postprocessors) ==
    With(find_filetype(path), LAMBDA ft :
    IF ft.err # "none" THEN [NoOutcome EXCEPT !.err = ft.err]
    ELSE
    With(load(path), LAMBDA got :
    IF got.err # "none"
    THEN [NoOutcome EXCEPT !.err = got.err, !.loads = got.calls]
    ELSE render_loaded(path, ft.mimetype, got, apply_postprocessors)))

-----------------------------------------------------------------------------
(* Finalization: ConfiguredTplModule._finalize *)

\* set(filetype.extensions)
ExtSet(filetype) == Range(filetype.extensions)

\* all_extensions once the first k FileTypes have been added
ExtsBefore(k) == UNION {ExtSet(filetypes[j]) : j \in 1..(k - 1)}

\* the FileTypes at which the first loop finds duplicates
Duplicated == {k \in DOMAIN filetypes : ExtsBefore(k) \cap ExtSet(filetypes[k]) # {}}

all_extensions == UNION {ExtSet(filetypes[k]) : k \in DOMAIN filetypes}

\* the orders in which a set may be iterated
Orders(S) == {s \in [1..Cardinality(S) -> S] : Range(s) = S}

\* sorted(seq, key=len): stable, shortest first
RECURSIVE sorted_len_from(_, _, _)
sorted_len_from(seq, n, top) ==
    IF n > top THEN <<>>
    ELSE LET HasLen(x) == Len(x) = n
         IN  SelectSeq(seq, HasLen) \o sorted_len_from(seq, n + 1, top)

\* sorted(seq, key=len, reverse=True): stable, longest first
RECURSIVE sorted_len_reverse_from(_, _)
sorted_len_reverse_from(seq, n) ==
    IF n < 0 THEN <<>>
    ELSE LET HasLen(x) == Len(x) = n
         IN  SelectSeq(seq, HasLen) \o sorted_len_reverse_from(seq, n - 1)

LongestOf(seq) == IF seq = <<>> THEN 0 ELSE Max({Len(seq[i]) : i \in DOMAIN seq})

\* a sort without reverse=True
sorted_len(seq) == sorted_len_from(seq, 0, LongestOf(seq))

sorted_len_reverse(seq) == sorted_len_reverse_from(seq, LongestOf(seq))

\* self.loaders[key] for the keys in turn, as the OrderedDict is built:
\* Loaders.__missing__ adds a missing key to the old registry and refuses a
\* key with a slash; a plain OrderedDict has no value for a missing key
RECURSIVE collect_loaders(_, _, _)
collect_loaders(keys, old, items) ==
    IF keys = <<>> THEN [err |-> "none", old |-> old, items |-> items]
    ELSE LET key == Head(keys)
         IN  IF HasKey(old, key)
             THEN collect_loaders(Tail(keys), old,
                      Append(items, [key |-> key, value |-> Get(old, key)]))
             ELSE IF old.cls = "OrderedDict"
             THEN [err |-> "KeyError", old |-> old, items |-> items]
             ELSE IF HasChar(key, "/")
             THEN [err |-> "ValueError", old |-> old, items |-> items]
             ELSE collect_loaders(Tail(keys),
                      Put(old, key, Loaders_missing(key)),
                      Append(items, [key |-> key, value |-> Loaders_missing(key)]))

\* a sort that is not stable: the keys of one length come out in the
\* opposite order
sorted_engines_unstable ==
    LET up   == sorted_len(Keys(engines))
        keys == [i \in DOMAIN up |-> up[Len(up) + 1 - i]]
    IN  [cls   |-> "OrderedDict",
         items |-> [i \in DOMAIN keys |-> [key |-> keys[i], value |-> Get(engines, keys[i])]]]

\* the engine registry rebuilt in the order of the sorted keys
sorted_engines ==
    LET keys == sorted_len_reverse(Keys(engines))
    IN  [cls   |-> "OrderedDict",
         items |-> [i \in DOMAIN keys |-> [key |-> keys[i], value |-> Get(engines, keys[i])]]]

\* _finalize, with the extensions iterated in the given order: how it ends
\* and the registries it leaves
finalize(order) ==
    IF Duplicated # {}
    THEN [err |-> "AttributeError", loaders |-> loaders, engines |-> engines]
    ELSE IF \E i \in DOMAIN loaders.items : loaders.items[i].key \notin all_extensions
    THEN [err |-> "ConfigurationError", loaders |-> loaders, engines |-> engines]
    ELSE IF \E i \in DOMAIN engines.items : engines.items[i].key \notin all_extensions
    THEN [err |-> "ConfigurationError", loaders |-> loaders, engines |-> engines]
    ELSE With(collect_loaders(sorted_len_reverse(order), loaders, <<>>), LAMBDA got :
             IF got.err # "none"
             THEN [err |-> got.err, loaders |-> got.old, engines |-> engines]
             ELSE [err     |-> "none",
                   loaders |-> [cls |-> "OrderedDict", items |-> got.items],
                   engines |-> sorted_engines])

-----------------------------------------------------------------------------
(* The state machine *)

\* the registrations held: what MaxRegs bounds
MockCount(list) == Cardinality({i \in DOMAIN list : list[i].cls = "Mock"})
RECURSIVE Sum(_, _)
Sum(f, n) == IF n = 0 THEN 0 ELSE f[n] + Sum(f, n - 1)
Regs ==
    Sum([k \in DOMAIN filetypes |-> Len(filetypes[k].extensions)
            + Len(filetypes[k].postprocessors) + Len(filetypes[k].globals)],
        Len(filetypes))
    + Len(engines.items)
    + Sum([i \in DOMAIN loaders.items |->
            MockCount(loaders.items[i].value)
            + (IF loaders.cls = "Loaders" THEN 1 ELSE 0)],
          Len(loaders.items))
    - Len(conf)

Call(op, arg, err) ==
    [op |-> op, arg |-> arg, err |-> err, value |-> <<>>, found |-> <<>>,
     loads |-> <<>>, made |-> <<>>, rendering |-> <<>>, apply |-> TRUE]

\* the confdicts: every extension is given one mimetype, and the set of
\* extensions is iterated in some order
Confs(exts) ==
    {c \in UNION {[1..n -> [extension : exts, mimetype : Mimetypes]]
                    : n \in 0..MaxConf} :
        \A i, j \in DOMAIN c : i # j => c[i].extension # c[j].extension}

\* init(confdict), the loop over the extensions:
\* tpl.filetypes[mimetype].extensions.append(ext)
RECURSIVE configured(_, _)
configured(fts, c) ==
    IF c = <<>> THEN fts
    ELSE LET m == Head(c).mimetype
             had == \E i \in DOMAIN fts : fts[i].mimetype = m
             fts2 == IF had THEN fts ELSE Append(fts, FileType(m))
             k == FiletypeIndex(fts2, m)
         IN  configured([fts2 EXCEPT ![k].extensions = Append(@, Head(c).extension)],
                        Tail(c))

\* init(confdict): ConfiguredTplModule.__init__ and the configured filetypes
Init ==
    /\ conf \in Confs({gz, tar_gz})
    /\ rootdirs \in {<<>>, <<root_r>>}
    /\ filetypes = configured(<<>>, conf)
    /\ loaders = [cls |-> "Loaders", items |-> <<>>]
    /\ engines = [cls |-> "Engines", items |-> <<>>]
    /\ renderers = {}
    /\ disk = InitialDisk
    /\ threads = NoThreads
    /\ constructed = <<>>
    /\ hub = NoRenderer
    /\ generic = NoRenderer
    /\ fallback = NoRenderer
    /\ last = Call("init", <<>>, "none")

Postprocessors == {"strip"}
GlobalNames == {"x"}

\* tpl.filetypes[mimetype].extensions.append(extension)
AppendExtension(mimetype, extension) ==
    LET fts == FileTypes_get(mimetype)
        k   == FiletypeIndex(fts, mimetype)
    IN  /\ Regs < MaxRegs
        /\ Len(fts[k].extensions) < MaxExts
        /\ IF fts[k].finalized
           THEN /\ filetypes' = fts
                /\ last' = Call("append_extension", extension, "AttributeError")
           ELSE /\ filetypes' = [fts EXCEPT ![k].extensions = Append(@, extension)]
                /\ last' = Call("append_extension", extension, "none")
        /\ UNCHANGED <<fallback, generic, hub, disk, threads, constructed, conf, rootdirs, loaders, engines, renderers>>

\* tpl.filetypes[mimetype].postprocessors.append(postprocessor)
AppendPostprocessor(mimetype, postprocessor) ==
    LET fts == FileTypes_get(mimetype)
        k   == FiletypeIndex(fts, mimetype)
    IN  /\ Regs < MaxRegs
        /\ IF fts[k].finalized
           THEN /\ filetypes' = fts
                /\ last' = Call("append_postprocessor", <<>>, "AttributeError")
           ELSE /\ filetypes' = [fts EXCEPT ![k].postprocessors = Append(@, postprocessor)]
                /\ last' = Call("append_postprocessor", <<>>, "none")
        /\ UNCHANGED <<fallback, generic, hub, disk, threads, constructed, conf, rootdirs, loaders, engines, renderers>>

\* tpl.define_global(mimetype, name, value): FileType.add_global
\* an add_global without the test of the name
define_global_unchecked(mimetype, name) ==
    LET fts == FileTypes_get(mimetype)
        k   == FiletypeIndex(fts, mimetype)
    IN  /\ Regs < MaxRegs
        /\ IF fts[k].finalized
           THEN /\ filetypes' = fts
                /\ last' = Call("define_global", <<>>, "AssertionError")
           ELSE /\ filetypes' = [fts EXCEPT ![k].globals =
                        Append(@, [name |-> name, value |-> 1, escape |-> TRUE])]
                /\ last' = Call("define_global", <<>>, "none")
        /\ UNCHANGED <<fallback, generic, hub, disk, threads, constructed, conf, rootdirs, loaders, engines, renderers>>

\* tpl.define_global(mimetype, name, value): FileType.add_global on the
\* FileType of the mimetype, made on first use
define_global(mimetype, name) ==
    LET fts == FileTypes_get(mimetype)
        k   == FiletypeIndex(fts, mimetype)
    IN  /\ \/ Regs < MaxRegs
           \/ fts[k].finalized
           \/ \E i \in DOMAIN fts[k].globals : fts[k].globals[i].name = name
        /\ IF fts[k].finalized \/ \E i \in DOMAIN fts[k].globals : fts[k].globals[i].name = name
           THEN /\ filetypes' = fts
                /\ last' = Call("define_global", <<>>, "AssertionError")
           ELSE /\ filetypes' = [fts EXCEPT ![k].globals =
                        Append(@, [name |-> name, value |-> 1, escape |-> TRUE])]
                /\ last' = Call("define_global", <<>>, "none")
        /\ UNCHANGED <<fallback, generic, hub, disk, threads, constructed, conf, rootdirs, loaders, engines, renderers>>

\* tpl.engines[key] = value: Engines.__setitem__ before _finalize has
\* replaced the registry, OrderedDict.__setitem__ after
engines_setitem(key, value) ==
    /\ IF engines.cls = "Engines" /\ (HasKey(engines, key) \/ HasChar(key, "/"))
       THEN /\ engines' = engines
            /\ last' = Call("engines_setitem", key, "ValueError")
       ELSE /\ HasKey(engines, key) \/ Regs < MaxRegs
            /\ engines' = Put(engines, key, value)
            /\ last' = Call("engines_setitem", key, "none")
    /\ UNCHANGED <<fallback, generic, hub, disk, threads, constructed, conf, rootdirs, filetypes, loaders, renderers>>

\* tpl.loaders[key]: Loaders.__missing__ before _finalize has replaced the
\* registry, a plain lookup after
\* an access that makes the list anew every time
loaders_getitem_fresh(key) ==
    IF loaders.cls = "OrderedDict"
    THEN [err |-> IF HasKey(loaders, key) THEN "none" ELSE "KeyError", loaders |-> loaders]
    ELSE IF HasChar(key, "/") THEN [err |-> "ValueError", loaders |-> loaders]
    ELSE [err |-> "none", loaders |-> Put(loaders, key, Loaders_missing(key))]

\* self.loaders[key]: dict lookup, Loaders.__missing__ for a key that is not
\* there, KeyError once _finalize has replaced the registry
loaders_getitem(key) ==
    IF HasKey(loaders, key) THEN [err |-> "none", loaders |-> loaders]
    ELSE IF loaders.cls = "OrderedDict" THEN [err |-> "KeyError", loaders |-> loaders]
    ELSE IF HasChar(key, "/") THEN [err |-> "ValueError", loaders |-> loaders]
    ELSE [err |-> "none", loaders |-> Put(loaders, key, Loaders_missing(key))]

\* tpl.loaders[key]
GetLoaders(key) ==
    \E got \in {loaders_getitem(key)} :
        /\ HasKey(loaders, key) \/ got.err # "none" \/ Regs < MaxRegs
        /\ loaders' = got.loaders
        /\ last' = [Call("loaders_getitem", key, got.err) EXCEPT
                        !.found = IF got.err = "none" THEN Get(got.loaders, key) ELSE <<>>]
        /\ UNCHANGED <<fallback, generic, hub, disk, threads, constructed, conf, rootdirs, filetypes, engines, renderers>>

\* tpl.loaders[key].insert(0, loader) and tpl.loaders[key].append(loader)
AddLoader(key, loader, front) ==
    \E got \in {loaders_getitem(key)} :
        /\ got.err # "none" \/ Regs + (IF HasKey(loaders, key) THEN 0 ELSE 1) < MaxRegs
        /\ got.err = "none" => Len(Get(got.loaders, key)) < MaxLoaders
        /\ loaders' = IF got.err # "none" THEN got.loaders
                      ELSE Put(got.loaders, key,
                               IF front THEN <<loader>> \o Get(got.loaders, key)
                               ELSE Append(Get(got.loaders, key), loader))
        /\ last' = Call("add_loader", key, got.err)
        /\ UNCHANGED <<fallback, generic, hub, disk, threads, constructed, conf, rootdirs, filetypes, engines, renderers>>

\* tpl.loaders[key] = [loader]
loaders_setitem(key, loader) ==
    /\ Regs + (IF HasKey(loaders, key) THEN 0 ELSE 1) < MaxRegs
    /\ loaders' = Put(loaders, key, <<loader>>)
    /\ last' = Call("loaders_setitem", key, "none")
    /\ UNCHANGED <<fallback, generic, hub, disk, threads, constructed, conf, rootdirs, filetypes, engines, renderers>>

\* tpl._finalize()
Finalize ==
    \E order \in Orders(all_extensions) :
        \E got \in {finalize(order)} :
            /\ loaders' = got.loaders
            /\ engines' = got.engines
            /\ last' = Call("finalize", <<>>, got.err)
            /\ UNCHANGED <<fallback, generic, hub, disk, threads, constructed, conf, rootdirs, filetypes, renderers>>

\* tpl.mimetype(path)
Mimetype(path) ==
    \E ft \in {find_filetype(path)} :
        /\ last' = [Call("mimetype", path, ft.err) EXCEPT !.value = <<ft.mimetype>>]
        /\ UNCHANGED <<fallback, generic, hub, disk, threads, constructed, conf, rootdirs, filetypes, loaders, engines, renderers>>

\* tpl._find_loader(path): the loader key the name resolved to (parts[1]
\* when the loader list is reached) and the loader returned
FindLoader(path) ==
    \E key \in {find_loader_key(path)}, got \in {find_loader(path)} :
        /\ last' = [Call("find_loader", path, got.err) EXCEPT
                        !.value = key,
                        !.found = IF got.err = "none" THEN <<got.loader>> ELSE <<>>]
        /\ UNCHANGED <<fallback, generic, hub, disk, threads, constructed, conf, rootdirs, filetypes, loaders, engines, renderers>>

\* tpl.load(path)
Load(path) ==
    \E got \in {load(path)} :
        /\ last' = [Call("load", path, got.err) EXCEPT
                        !.value = IF got.err # "none" THEN <<>>
                                  ELSE IF got.is_file THEN Located(got.result)
                                  ELSE Inline(got.result),
                        !.loads = got.calls]
        /\ UNCHANGED <<fallback, generic, hub, disk, threads, constructed, conf, rootdirs, filetypes, loaders, engines, renderers>>

\* tpl.render(path, apply_postprocessors=...)
Render(path, apply_postprocessors) ==
    \E out \in {render(path, apply_postprocessors)} :
        /\ renderers' = out.cache
        /\ last' = [Call("render", path, out.err) EXCEPT
                        !.value = out.value, !.loads = out.loads,
                        !.made = out.made, !.rendering = out.rendering,
                        !.apply = apply_postprocessors]
        /\ UNCHANGED <<fallback, generic, hub, disk, threads, constructed, conf, rootdirs, filetypes, loaders, engines>>

\* the extensions registered: gz, tar.gz and one with a slash
RegExts == {gz, tar_gz, sl_gz}

\* registration and finalization
Next ==
    \/ \E m \in Mimetypes, e \in RegExts : AppendExtension(m, e)
    \/ \E m \in Mimetypes, p \in Postprocessors : AppendPostprocessor(m, p)
    \/ \E m \in Mimetypes, n \in GlobalNames : define_global(m, n)
    \/ \E e \in RegExts, f \in Factories : engines_setitem(e, f)
    \/ \E e \in RegExts : GetLoaders(e)
    \/ \E e \in RegExts, l \in MockLoaders : loaders_setitem(e, l)
    \/ Finalize

Spec == Init /\ [][Next]_vars

-----------------------------------------------------------------------------
(* Loading and rendering through the loader lists *)

\* the paths asked for: g.g, g.t.g and t/g.g are files of the root
\* directory, t.g and g are not
Paths ==
    { <<"g", ".", "g">>, <<"g", ".", "t", ".", "g">>, <<"t", "/", "g", ".", "g">>,
      <<"t", ".", "g">>, <<"g">> }

NextLoad ==
    \/ \E e \in {gz, tar_gz}, l \in MockLoaders, front \in BOOLEAN : AddLoader(e, l, front)
    \/ \E e \in {gz, tar_gz}, l \in MockLoaders : loaders_setitem(e, l)
    \/ \E e \in {gz, tar_gz} : engines_setitem(e, "F1")
    \/ Finalize
    \/ \E p \in Paths : Load(p)
    \/ \E p \in Paths : Render(p, TRUE)

SpecLoad == Init /\ [][NextLoad]_vars

-----------------------------------------------------------------------------
(* Name resolution on every path of at most MaxPathLen characters *)

\* init(confdict) followed by _finalize(), and the path that is asked for
InitResolve ==
    /\ conf \in Confs({gz, tpl, tar_gz})
    /\ rootdirs = <<root_r>>
    /\ filetypes = configured(<<>>, conf)
    /\ loaders \in
        {[cls   |-> "OrderedDict",
          items |-> collect_loaders(sorted_len_reverse(order),
                        [cls |-> "Loaders", items |-> <<>>], <<>>).items]
            : order \in Orders(all_extensions)}
    /\ engines = [cls |-> "OrderedDict", items |-> <<>>]
    /\ renderers = {}
    /\ disk = InitialDisk
    /\ threads = NoThreads
    /\ constructed = <<>>
    /\ hub = NoRenderer
    /\ generic = NoRenderer
    /\ fallback = NoRenderer
    /\ last \in {Call("ask", p, "none") : p \in Strings(MaxPathLen)}

NextResolve ==
    \/ Mimetype(last.arg)
    \/ FindLoader(last.arg)

SpecResolve == InitResolve /\ [][NextResolve]_vars

-----------------------------------------------------------------------------
(* Renderer chains on every file name of at most MaxPathLen characters *)

\* tpl._find_renderers(path): without a filetype argument the FileType is
\* looked up first; a call whose loop does not end has no result
FindRenderers(path) ==
    \E ft \in {find_filetype(path)} :
        IF ft.err # "none"
        THEN /\ last' = Call("find_renderers", path, ft.err)
             /\ UNCHANGED <<fallback, generic, hub, disk, threads, constructed, conf, rootdirs, filetypes, loaders, engines, renderers>>
        ELSE \E found \in {find_renderers(path, ft.mimetype)} :
             /\ renderers' = found.cache
             /\ last' = [Call("find_renderers", path, found.err) EXCEPT
                            !.value = IF found.err = "none" THEN found.chain ELSE <<>>,
                            !.made = found.made]
             /\ UNCHANGED <<fallback, generic, hub, disk, threads, constructed, conf, rootdirs, filetypes, loaders, engines>>

\* the extensions of the confdict, in its order
conf_extensions == [i \in DOMAIN conf |-> conf[i].extension]

\* the loader registry _finalize leaves when it finds all_extensions in order
finalized_loaders(order) ==
    [cls   |-> "OrderedDict",
     items |-> collect_loaders(sorted_len_reverse(order),
                   [cls |-> "Loaders", items |-> <<>>], <<>>).items]

\* the engine registry _finalize leaves when the factories f were assigned to
\* the extensions of order, in that order
finalized_engines(order, f) ==
    [cls   |-> "OrderedDict",
     items |-> [i \in DOMAIN order |->
                  [key   |-> sorted_len_reverse(order)[i],
                   value |-> f[sorted_len_reverse(order)[i]]]]]

\* the engine registries a finalized module can hold: some of the FileType
\* extensions, each with a factory
FinalizedEngines(factories) ==
    UNION {{finalized_engines(order, f) : order \in Orders(S), f \in [S -> factories]}
            : S \in SUBSET all_extensions}

\* the file names asked for: no directory part
ChainNames == {p \in Strings(MaxPathLen) : ~HasChar(p, "/")}

\* init(confdict), engine assignments and _finalize(), and the name asked for
InitChain ==
    /\ conf \in Confs({gz, tpl, tar_gz})
    /\ rootdirs = <<root_r>>
    /\ filetypes = configured(<<>>, conf)
    /\ loaders = finalized_loaders(conf_extensions)
    /\ engines \in FinalizedEngines(Factories)
    /\ renderers = {}
    /\ disk = InitialDisk
    /\ threads = NoThreads
    /\ constructed = <<>>
    /\ hub = NoRenderer
    /\ generic = NoRenderer
    /\ fallback = NoRenderer
    /\ last \in {Call("ask", p, "none") : p \in ChainNames}

NextChain == FindRenderers(last.arg)

SpecChain == InitChain /\ [][NextChain]_vars

-----------------------------------------------------------------------------
(* Rendering: postprocessors appended and removed, engines whose renderers  *)
(* return or raise, loaders that return a file location or inline content   *)

\* the postprocessors appended to a FileType
RenderPostprocessors == {"strip", "upper"}

\* tpl.filetypes[mimetype].postprocessors.pop()
PopPostprocessor(mimetype) ==
    \E k \in DOMAIN filetypes :
        /\ filetypes[k].mimetype = mimetype
        /\ filetypes[k].postprocessors # <<>>
        /\ filetypes' = [filetypes EXCEPT ![k].postprocessors =
                            SubSeq(@, 1, Len(@) - 1)]
        /\ last' = [Call("pop_postprocessor", <<>>, "none") EXCEPT
                        !.value = <<filetypes[k].postprocessors[
                                        Len(filetypes[k].postprocessors)], mimetype>>]
        /\ UNCHANGED <<fallback, generic, hub, disk, threads, constructed, conf, rootdirs, loaders, engines,
                       renderers>>

\* the FileTypes after postprocessors.append(p) for the p of list, in order,
\* on the k-th of them
with_postprocessors(fts, k, list) ==
    [i \in DOMAIN fts |-> IF i = k THEN [fts[i] EXCEPT !.postprocessors = list]
                          ELSE fts[i]]

\* the engine registry after tpl.engines[key] = f[key] for the keys of order
registered_engines(order, f) ==
    [cls   |-> "Engines",
     items |-> [i \in DOMAIN order |-> [key |-> order[i], value |-> f[order[i]]]]]

\* the loader registry after tpl.loaders[key].insert(0, loader) for the keys
\* of order
registered_loaders(order, loader) ==
    [cls   |-> "Loaders",
     items |-> [i \in DOMAIN order |->
                  [key |-> order[i],
                   value |-> <<loader, FileSystemLoader(order[i])>>]]]

\* the lists of at most two different postprocessors
PostprocessorLists ==
    {l \in UNION {[1..n -> RenderPostprocessors] : n \in 0..2} :
        \A i, j \in DOMAIN l : i # j => l[i] # l[j]}

\* the paths rendered: a.gz and a.gz.tar.gz are files, and so is a.t, whose
\* name has the extension of no FileType
RenderPaths ==
    { <<"g", ".", "g">>, <<"g", ".", "g", ".", "t", ".", "g">>, <<"g", ".", "t">> }

\* init(confdict) and the registrations made before _finalize()
InitRender ==
    /\ conf \in {c \in Confs({gz, tar_gz}) : c # <<>> /\ c[1].mimetype = "text/plain"}
    /\ rootdirs = <<root_r>>
    /\ filetypes \in {with_postprocessors(configured(<<>>, conf), 1, l) :
                        l \in PostprocessorLists}
    /\ loaders \in {[cls |-> "Loaders", items |-> <<>>]}
           \cup {registered_loaders(conf_extensions, l) :
                    l \in {m \in MockLoaders : m.load = "foo"}}
    /\ engines \in UNION {{registered_engines(order, f) :
                            order \in Orders(S), f \in [S -> RenderFactories]}
                          : S \in SUBSET {conf[i].extension : i \in DOMAIN conf}}
    /\ renderers = {}
    /\ disk = InitialDisk
    /\ threads = NoThreads
    /\ constructed = <<>>
    /\ hub = NoRenderer
    /\ generic = NoRenderer
    /\ fallback = NoRenderer
    /\ last = Call("init", <<>>, "none")

NextRender ==
    \/ \E m \in Mimetypes : ~(loaders.cls = "OrderedDict") /\ PopPostprocessor(m)
    \/ Finalize
    \/ \E p \in RenderPaths, b \in BOOLEAN : Render(p, b)

SpecRender == InitRender /\ [][NextRender]_vars

-----------------------------------------------------------------------------
(* Hashing: ConfiguredTplModule.hash and Loader.hash *)

\* xxhash.xxh64(content).hexdigest(): different contents, different digests
xxh64(content) == <<"xxh64", content>>

\* a digest of the place of the content instead of the content
loader_hash_of_location(loader, path) ==
    IF loader.cls = "FileSystemLoader"
    THEN With(loader_load(loader, path), LAMBDA got :
         IF got.err # "none" THEN [err |-> got.err, token |-> <<>>]
         ELSE [err |-> "none", token |-> xxh64(got.result)])
    ELSE [err |-> "none", token |-> <<"Mock.hash">>]

\* Loader.hash behind its call of load: the digest of the bytes of the file,
\* with the FileNotFoundError of open() turned into TemplateNotFound, or the
\* digest of the inline content
hash_loaded(got) ==
    IF ~got.is_file THEN [err |-> "none", token |-> xxh64(got.result)]
    ELSE IF Present(abspath(got.result))
    THEN [err |-> "none", token |-> xxh64(disk[abspath(got.result)])]
    ELSE IF abspath(got.result) \in DiskDirs
    THEN [err |-> "IsADirectoryError", token |-> <<>>]
    ELSE [err |-> "TemplateNotFound", token |-> <<>>]

\* loader.hash(path): Loader.hash digests what load returns, the bytes of the
\* file or the inline content; the hash of a unittest.mock.Mock is its own
loader_hash(loader, path) ==
    IF loader.cls = "FileSystemLoader"
    THEN With(loader_load(loader, path), LAMBDA got :
         IF got.err # "none" THEN [err |-> got.err, token |-> <<>>]
         ELSE hash_loaded(got))
    ELSE [err |-> "none", token |-> <<"Mock.hash">>]

\* str.startswith(prefix) and path[len(prefix):]
startswith(s, prefix) ==
    Len(s) >= Len(prefix) /\ SubSeq(s, 1, Len(prefix)) = prefix
strip(s, prefix) == SubSeq(s, Len(prefix) + 1, Len(s))

\* the files of the disk in the order os.walk meets them: the files of a
\* directory before those of its subdirectories (the order inside one
\* directory is the file system's; one is fixed here)
DiskOrder ==
    << <<<<"g", ".", "g">>>>,
       <<<<"r">>, <<"g", ".", "g">>>>,
       <<<<"r">>, <<"g", ".", "t">>>>,
       <<<<"r">>, <<"g", ".", "t", ".", "g">>>>,
       <<<<"r">>, <<"g", ".", "g", ".", "t", ".", "g">>>>,
       <<<<"r">>, <<"t">>, <<"g", ".", "g">>>> >>

\* FileSystemLoader.iter_paths: root after root, the files below it whose
\* name ends with '.extension', as paths relative to the root, each path once
RECURSIVE FileSystemLoader_iter_paths(_, _, _)
FileSystemLoader_iter_paths(dirs, extension, found) ==
    IF dirs = <<>> THEN found
    ELSE LET rootnames == abspath(Head(dirs))
             ext == <<".">> \o extension
             Below(f) ==
                 /\ Len(f) > Len(rootnames)
                 /\ SubSeq(f, 1, Len(rootnames)) = rootnames
                 /\ Len(f[Len(f)]) >= Len(ext)
                 /\ SubSeq(f[Len(f)], Len(f[Len(f)]) - Len(ext) + 1, Len(f[Len(f)])) = ext
             files == IF rootnames \in DiskDirs THEN SelectSeq(DiskOrder, Below) ELSE <<>>
             paths == [k \in DOMAIN files |->
                          join("/", SubSeq(files[k], Len(rootnames) + 1, Len(files[k])))]
             New(path) == ~InList(path, found)
         IN  FileSystemLoader_iter_paths(Tail(dirs), extension,
                                         found \o SelectSeq(paths, New))

\* the loaders that wrap other loaders
ChainLoader(children) == [cls |-> "ChainLoader", loaders |-> children]
PrefixedLoader(prefix, wrapped) ==
    [cls |-> "PrefixedLoader", prefix |-> prefix, wrapped |-> wrapped]

\* a call made on a loader
CallOn(method, loader, path) == [call |-> method, on |-> loader, arg |-> path]

\* loader.method(path) for load, hash and is_valid: how the call ends, what it
\* returns and the calls it makes on the loaders it wraps
RECURSIVE invoke(_, _, _)

\* a load that tries the children from the last to the first
RECURSIVE ChainLoader_load_backwards(_, _)
ChainLoader_load_backwards(children, path) ==
    IF children = <<>>
    THEN [err |-> "TemplateNotFound", value |-> <<>>, calls |-> <<>>]
    ELSE With(invoke("load", children[Len(children)], path), LAMBDA got :
         IF got.err # "TemplateNotFound"
         THEN [got EXCEPT !.calls = <<CallOn("load", children[Len(children)], path)>> \o @]
         ELSE With(ChainLoader_load_backwards(SubSeq(children, 1, Len(children) - 1), path),
                   LAMBDA rest :
              [rest EXCEPT !.calls = <<CallOn("load", children[Len(children)], path)>>
                                        \o got.calls \o @]))

\* ChainLoader.load: the first child whose load does not raise
\* TemplateNotFound decides; TemplateNotFound when the loop runs out
RECURSIVE ChainLoader_load(_, _)
ChainLoader_load(children, path) ==
    IF children = <<>>
    THEN [err |-> "TemplateNotFound", value |-> <<>>, calls |-> <<>>]
    ELSE With(invoke("load", Head(children), path), LAMBDA got :
         IF got.err # "TemplateNotFound"
         THEN [got EXCEPT !.calls = <<CallOn("load", Head(children), path)>> \o @]
         ELSE With(ChainLoader_load(Tail(children), path), LAMBDA rest :
              [rest EXCEPT !.calls = <<CallOn("load", Head(children), path)>>
                                        \o got.calls \o @]))

\* ChainLoader.hash: as load, but the function ends without a raise when
\* the loop runs out, and so returns None
RECURSIVE ChainLoader_hash(_, _)
ChainLoader_hash(children, path) ==
    IF children = <<>>
    THEN [err |-> "none", value |-> None, calls |-> <<>>]
    ELSE With(invoke("hash", Head(children), path), LAMBDA got :
         IF got.err # "TemplateNotFound"
         THEN [got EXCEPT !.calls = <<CallOn("hash", Head(children), path)>> \o @]
         ELSE With(ChainLoader_hash(Tail(children), path), LAMBDA rest :
              [rest EXCEPT !.calls = <<CallOn("hash", Head(children), path)>>
                                        \o got.calls \o @]))

\* ChainLoader.is_valid: any(...) asks the children until one says yes
\* an is_valid that asks the first child only
RECURSIVE ChainLoader_is_valid_first(_, _)
ChainLoader_is_valid_first(children, path) ==
    IF children = <<>>
    THEN [err |-> "none", value |-> <<FALSE>>, calls |-> <<>>]
    ELSE With(invoke("is_valid", Head(children), path), LAMBDA got :
         [got EXCEPT !.calls = <<CallOn("is_valid", Head(children), path)>> \o @])

\* ChainLoader.is_valid: any(loader.is_valid(path) for loader in self.loaders)
RECURSIVE ChainLoader_is_valid(_, _)
ChainLoader_is_valid(children, path) ==
    IF children = <<>>
    THEN [err |-> "none", value |-> <<FALSE>>, calls |-> <<>>]
    ELSE With(invoke("is_valid", Head(children), path), LAMBDA got :
         IF got.err # "none" \/ got.value = <<TRUE>>
         THEN [got EXCEPT !.calls = <<CallOn("is_valid", Head(children), path)>> \o @]
         ELSE With(ChainLoader_is_valid(Tail(children), path), LAMBDA rest :
              [rest EXCEPT !.calls = <<CallOn("is_valid", Head(children), path)>>
                                        \o got.calls \o @]))

\* a wrapper that hands every path to the wrapped loader as it is
PrefixedLoader_call_unchecked(method, loader, path) ==
    With(invoke(method, loader.wrapped, path), LAMBDA got :
         [got EXCEPT !.calls = <<CallOn(method, loader.wrapped, path)>> \o @])

\* PrefixedLoader.load, hash and is_valid: a path without the prefix is
\* refused, any other goes to the wrapped loader without the prefix
PrefixedLoader_call(method, loader, path) ==
    IF ~startswith(path, loader.prefix)
    THEN IF method = "is_valid"
         THEN [err |-> "none", value |-> <<FALSE>>, calls |-> <<>>]
         ELSE [err |-> "TemplateNotFound", value |-> <<>>, calls |-> <<>>]
    ELSE With(invoke(method, loader.wrapped, strip(path, loader.prefix)), LAMBDA got :
         [got EXCEPT !.calls =
             <<CallOn(method, loader.wrapped, strip(path, loader.prefix))>> \o @])

invoke(method, loader, path) ==
    IF loader.cls = "ChainLoader"
    THEN IF method = "load" THEN ChainLoader_load(loader.loaders, path)
         ELSE IF method = "hash" THEN ChainLoader_hash(loader.loaders, path)
         ELSE ChainLoader_is_valid(loader.loaders, path)
    ELSE IF loader.cls = "PrefixedLoader"
    THEN PrefixedLoader_call(method, loader, path)
    ELSE IF method = "load"
    THEN With(loader_load(loader, path), LAMBDA got :
             [err |-> got.err,
              value |-> IF got.err # "none" THEN <<>> ELSE <<got.is_file, got.result>>,
              calls |-> <<>>])
    ELSE IF method = "hash"
    THEN With(loader_hash(loader, path), LAMBDA got :
             [err |-> got.err, value |-> got.token, calls |-> <<>>])
    ELSE [err |-> "none", value |-> <<is_valid(loader, path)>>, calls |-> <<>>]

\* list(loader.iter_paths()); a unittest.mock.Mock returns a Mock, which
\* cannot be iterated
RECURSIVE iter_paths_of(_)
RECURSIVE ChainLoader_iter_paths(_)
ChainLoader_iter_paths(children) ==
    IF children = <<>> THEN [err |-> "none", paths |-> <<>>]
    ELSE With(iter_paths_of(Head(children)), LAMBDA got :
         IF got.err # "none" THEN got
         ELSE With(ChainLoader_iter_paths(Tail(children)), LAMBDA rest :
              [err |-> rest.err, paths |-> got.paths \o rest.paths]))

iter_paths_of(loader) ==
    IF loader.cls = "ChainLoader" THEN ChainLoader_iter_paths(loader.loaders)
    ELSE IF loader.cls = "PrefixedLoader"
    THEN With(iter_paths_of(loader.wrapped), LAMBDA got :
             [err |-> got.err,
              paths |-> [k \in DOMAIN got.paths |-> loader.prefix \o got.paths[k]]])
    ELSE IF loader.cls = "FileSystemLoader"
    THEN [err |-> "none",
          paths |-> FileSystemLoader_iter_paths(rootdirs, loader.extension, <<>>)]
    ELSE [err |-> "TypeError", paths |-> <<>>]

\* a hash that looks the FileType up first
hash_of_filetype(path) ==
    IF find_filetype(path).err # "none"
    THEN [err |-> find_filetype(path).err, token |-> <<>>]
    ELSE With(find_loader(path), LAMBDA found :
         IF found.err # "none" THEN [err |-> found.err, token |-> <<>>]
         ELSE loader_hash(found.loader, path))

\* self._find_loader(path).hash(path)
hash(path) ==
    With(find_loader(path), LAMBDA found :
        IF found.err # "none" THEN [err |-> found.err, token |-> <<>>]
        ELSE loader_hash(found.loader, path))

\* tpl.hash(path)
Hash(path) ==
    \E got \in {hash(path)} :
        /\ last' = [Call("hash", path, got.err) EXCEPT !.value = got.token]
        /\ UNCHANGED <<fallback, generic, hub, disk, threads, constructed, conf, rootdirs, filetypes, loaders,
                       engines, renderers>>

\* the file that the loader of the path hashed last read is given another content;
\* the token of that call is kept to compare the next one with
ModifyContent(content) ==
    /\ last.op = "hash" /\ last.err = "none"
    /\ find_loader(last.arg).loader.cls = "FileSystemLoader"
    /\ find_file(last.arg) # None
    /\ abspath(find_file(last.arg)) \in DiskFiles
    /\ content # disk[abspath(find_file(last.arg))]
    /\ disk' = [disk EXCEPT ![abspath(find_file(last.arg))] = content]
    /\ last' = [last EXCEPT !.op = "modified"]
    /\ UNCHANGED <<fallback, generic, hub, threads, constructed, conf, rootdirs, filetypes, loaders, engines,
                   renderers>>

NextHash ==
    \/ Finalize
    \/ \E p \in RenderPaths : Hash(p)
    \/ \E c \in Contents : ModifyContent(c)

SpecHash == InitRender /\ [][NextHash]_vars

-----------------------------------------------------------------------------
(* The GenericRenderer of score/tpl/jinja2/engine.py: its dictionaries of    *)
(* globals and filters, and the jinja2.Environment it builds from them      *)

\* the names registered, and a name that a dictionary does not hold
RegisteredNames == {"x", "y"}
Unset == "unset"

\* GenericRenderer.__init__: empty dictionaries, no environment
GenericRenderer_init ==
    [globals |-> [n \in RegisteredNames |-> Unset],
     filters |-> [n \in RegisteredNames |-> Unset],
     env     |-> None]

\* how the three registrations end
Registered(name) ==
    /\ last' = Call("generic_add", <<name>>, "none")
    /\ UNCHANGED <<fallback, hub, disk, threads, constructed, conf, rootdirs, filetypes,
                   loaders, engines, renderers>>

\* GenericRenderer.add_function: self.globals[name] = value; self._env = None
GenericRenderer_add_function(name) ==
    /\ generic' = [generic EXCEPT !.globals[name] = "function", !.env = None]
    /\ Registered(name)

\* GenericRenderer.add_filter: self.filters[name] = callback; self._env = None
GenericRenderer_add_filter(name) ==
    /\ generic' = [generic EXCEPT !.filters[name] = "filter", !.env = None]
    /\ Registered(name)

\* an add_global that leaves the environment built earlier in place
GenericRenderer_add_global_keeping_env(name) ==
    /\ generic' = [generic EXCEPT !.globals[name] = "global"]
    /\ Registered(name)

\* GenericRenderer.add_global: self.globals[name] = value; self._env = None
GenericRenderer_add_global(name) ==
    /\ generic' = [generic EXCEPT !.globals[name] = "global", !.env = None]
    /\ Registered(name)

\* GenericRenderer.build_environment: a new jinja2.Environment, into which
\* the two dictionaries are copied (env.globals.update, env.filters.update)
build_environment == <<[globals |-> generic.globals, filters |-> generic.filters]>>

\* the property GenericRenderer.env: the environment kept, built when there
\* is none
GenericRenderer_env == IF generic.env = None THEN build_environment ELSE generic.env

\* GenericRenderer.render_string and render_file: the template is taken from
\* self.env and rendered; last.value is the environment that rendered
GenericRenderer_render(method) ==
    /\ generic' = [generic EXCEPT !.env = GenericRenderer_env]
    /\ last' = [Call(method, <<>>, "none") EXCEPT !.value = GenericRenderer_env]
    /\ UNCHANGED <<fallback, hub, disk, threads, constructed, conf, rootdirs, filetypes,
                   loaders, engines, renderers>>

InitGeneric ==
    /\ conf = <<>>
    /\ rootdirs = <<>>
    /\ filetypes = <<>>
    /\ loaders = [cls |-> "Loaders", items |-> <<>>]
    /\ engines = [cls |-> "Engines", items |-> <<>>]
    /\ renderers = {}
    /\ disk = InitialDisk
    /\ threads = NoThreads
    /\ constructed = <<>>
    /\ hub = NoRenderer
    /\ generic = GenericRenderer_init
    /\ fallback = NoRenderer
    /\ last = Call("init", <<>>, "none")

NextGeneric ==
    \/ \E n \in RegisteredNames : GenericRenderer_add_function(n)
    \/ \E n \in RegisteredNames : GenericRenderer_add_filter(n)
    \/ \E n \in RegisteredNames : GenericRenderer_add_global(n)
    \/ \E m \in {"render_string", "render_file"} : GenericRenderer_render(m)

SpecGeneric == InitGeneric /\ [][NextGeneric]_vars

-----------------------------------------------------------------------------
(* The loader registry read and filled before _finalize *)

NextRegistry ==
    \/ \E e \in RegExts : GetLoaders(e)
    \/ \E e \in {gz, tar_gz}, l \in MockLoaders, front \in BOOLEAN : AddLoader(e, l, front)
    \/ Finalize

SpecRegistry == Init /\ [][NextRegistry]_vars

-----------------------------------------------------------------------------
(* Globals defined one after the other *)

\* the names defined
DefinedNames == {"x", "y"}

NextDefine ==
    \/ \E m \in Mimetypes, n \in DefinedNames : define_global(m, n)
    \/ Finalize

SpecDefine == Init /\ [][NextDefine]_vars

-----------------------------------------------------------------------------
(* Files removed while a call is under way: hash and render in two steps,   *)
(* the call of load and what follows it                                     *)

\* a context that is inside hash or render and has loaded
InCall(op, path, mimetype, got, apply_postprocessors) ==
    [pc |-> op, filename |-> path, mimetype |-> mimetype, chain |-> <<>>,
     pending |-> <<[got |-> got, apply |-> apply_postprocessors]>>]

\* tpl.hash(path) up to the return of load in Loader.hash; the hash of a Mock
\* is one step
HashLoad(t, path) ==
    /\ threads[t].pc = "idle"
    /\ \E found \in {find_loader(path)} :
        IF found.err # "none"
        THEN /\ last' = Call("hash", path, found.err)
             /\ UNCHANGED threads
        ELSE IF found.loader.cls # "FileSystemLoader"
        THEN /\ last' = [Call("hash", path, "none") EXCEPT
                             !.value = loader_hash(found.loader, path).token]
             /\ UNCHANGED threads
        ELSE \E got \in {loader_load(found.loader, path)} :
             IF got.err # "none"
             THEN /\ last' = Call("hash", path, got.err)
                  /\ UNCHANGED threads
             ELSE /\ threads' = [threads EXCEPT ![t] = InCall("hash", path, "", got, TRUE)]
                  /\ UNCHANGED last
    /\ UNCHANGED <<fallback, generic, hub, disk, constructed, conf, rootdirs, filetypes, loaders, engines,
                   renderers>>

\* the rest of Loader.hash: the file is opened and digested
HashRead(t) ==
    /\ threads[t].pc = "hash"
    /\ \E out \in {hash_loaded(threads[t].pending[1].got)} :
           last' = [Call("hash", threads[t].filename, out.err) EXCEPT !.value = out.token]
    /\ threads' = [threads EXCEPT ![t] = Idle]
    /\ UNCHANGED <<fallback, generic, hub, disk, constructed, conf, rootdirs, filetypes, loaders, engines,
                   renderers>>

\* tpl.render(path, apply_postprocessors=...) up to the return of self.load
RenderLoad(t, path, apply_postprocessors) ==
    /\ threads[t].pc = "idle"
    /\ \E ft \in {find_filetype(path)} :
        IF ft.err # "none"
        THEN /\ last' = [Call("render", path, ft.err) EXCEPT !.apply = apply_postprocessors]
             /\ UNCHANGED threads
        ELSE \E got \in {load(path)} :
             IF got.err # "none"
             THEN /\ last' = [Call("render", path, got.err) EXCEPT
                                  !.loads = got.calls, !.apply = apply_postprocessors]
                  /\ UNCHANGED threads
             ELSE /\ threads' = [threads EXCEPT ![t] =
                                     InCall("render", path, ft.mimetype, got,
                                            apply_postprocessors)]
                  /\ UNCHANGED last
    /\ UNCHANGED <<fallback, generic, hub, disk, constructed, conf, rootdirs, filetypes, loaders, engines,
                   renderers>>

\* the rest of render: the renderers, the read and the postprocessors
RenderRead(t) ==
    /\ threads[t].pc = "render"
    /\ \E out \in {render_loaded(threads[t].filename, threads[t].mimetype,
                                  threads[t].pending[1].got,
                                  threads[t].pending[1].apply)} :
        /\ renderers' = out.cache
        /\ last' = [Call("render", threads[t].filename, out.err) EXCEPT
                        !.value = out.value, !.loads = out.loads,
                        !.made = out.made, !.rendering = out.rendering,
                        !.apply = threads[t].pending[1].apply]
    /\ threads' = [threads EXCEPT ![t] = Idle]
    /\ UNCHANGED <<fallback, generic, hub, disk, constructed, conf, rootdirs, filetypes, loaders, engines>>

\* os.unlink(f), made by anyone at any time
Unlink(f) ==
    /\ Present(f)
    /\ disk' = [disk EXCEPT ![f] = Unlinked]
    /\ UNCHANGED <<fallback, generic, hub, threads, constructed, conf, rootdirs, filetypes, loaders, engines,
                   renderers, last>>

\* the files behind the paths rendered
VanishingFiles == {abspath(root_r \o <<"/">> \o p) : p \in RenderPaths}

NextVanish ==
    \/ Finalize
    \/ \E t \in Threads, p \in RenderPaths : HashLoad(t, p)
    \/ \E t \in Threads : HashRead(t)
    \/ \E t \in Threads, p \in RenderPaths : RenderLoad(t, p, TRUE)
    \/ \E t \in Threads : RenderRead(t)
    \/ \E f \in VanishingFiles : Unlink(f)

\* init(confdict) and engines registered, with no postprocessor
InitVanish ==
    /\ conf \in {c \in Confs({gz, tar_gz}) : c # <<>> /\ c[1].mimetype = "text/plain"}
    /\ rootdirs = <<root_r>>
    /\ filetypes = configured(<<>>, conf)
    /\ loaders \in {[cls |-> "Loaders", items |-> <<>>]}
           \cup {registered_loaders(conf_extensions, l) :
                    l \in {m \in MockLoaders : m.load = "foo"}}
    /\ engines \in UNION {{registered_engines(order, f) :
                            order \in Orders(S), f \in [S -> {"F1"}]}
                          : S \in SUBSET {conf[i].extension : i \in DOMAIN conf}}
    /\ renderers = {}
    /\ disk = InitialDisk
    /\ threads = NoThreads
    /\ constructed = <<>>
    /\ hub = NoRenderer
    /\ generic = NoRenderer
    /\ fallback = NoRenderer
    /\ last = Call("init", <<>>, "none")

SpecVanish == InitVanish /\ [][NextVanish]_vars

-----------------------------------------------------------------------------
(* Globals defined while renderers exist *)

NextGlobals ==
    \/ Finalize
    \/ \E p \in RenderPaths : Render(p, TRUE)
    \/ \E m \in Mimetypes, n \in GlobalNames : define_global(m, n)

SpecGlobals == InitRender /\ [][NextGlobals]_vars

-----------------------------------------------------------------------------
(* Enumeration: ConfiguredTplModule.iter_paths *)

\* the extensions of all FileTypes, in the order all_paths goes through them
RECURSIVE extensions_from(_)
extensions_from(k) ==
    IF k > Len(filetypes) THEN <<>>
    ELSE filetypes[k].extensions \o extensions_from(k + 1)

\* yield from loader.iter_paths() for the loaders of one list in turn
RECURSIVE paths_of_list(_)
paths_of_list(list) ==
    IF list = <<>> THEN [err |-> "none", paths |-> <<>>]
    ELSE With(iter_paths_of(Head(list)), LAMBDA got :
         IF got.err # "none" THEN got
         ELSE With(paths_of_list(Tail(list)), LAMBDA rest :
              [err |-> rest.err, paths |-> got.paths \o rest.paths]))

\* the same for the loader lists of the extensions in turn
RECURSIVE paths_of_items(_)
paths_of_items(items) ==
    IF items = <<>> THEN [err |-> "none", paths |-> <<>>]
    ELSE With(paths_of_list(Head(items).value), LAMBDA got :
         IF got.err # "none" THEN got
         ELSE With(paths_of_items(Tail(items)), LAMBDA rest :
              [err |-> rest.err, paths |-> got.paths \o rest.paths]))

\* all_paths(): self.loaders[extension] for the extensions in turn, which
\* adds to the registry the keys it does not have, and the paths of the
\* loaders found; an error ends the enumeration
all_paths ==
    With(collect_loaders(extensions_from(1), loaders, <<>>), LAMBDA got :
         With(paths_of_items(got.items), LAMBDA listed :
              [err     |-> IF listed.err # "none" THEN listed.err ELSE got.err,
               paths   |-> listed.paths,
               loaders |-> got.old]))

\* an enumeration that does not ask for the FileType of a path
valid_paths_unfiltered ==
    all_paths

\* valid_paths(): the paths of all_paths() whose FileType is found
valid_paths ==
    With(all_paths, LAMBDA all :
         LET Classified(path) == find_filetype(path).err = "none"
         IN  [all EXCEPT !.paths = SelectSeq(all.paths, Classified)])

\* the alternatives of the group '(e1|e2|...)': an empty list of extensions
\* leaves the empty string
alternatives(extensions) ==
    IF extensions = <<>> THEN {<<>>} ELSE Range(extensions)

\* a search for '\.(e1|e2|...)($|\.)' anywhere in the path
regex_search_unanchored(extensions, path) ==
    \E j \in 1..Len(path), ext \in alternatives(extensions) :
        /\ path[j] = "."
        /\ j + Len(ext) <= Len(path)
        /\ SubSeq(path, j + 1, j + Len(ext)) = ext
        /\ \/ j + Len(ext) = Len(path)
           \/ path[j + Len(ext) + 1] = "."

\* regex.search(path) for '(^|/)[^/.]+\.(e1|e2|...)($|\.)': a run of
\* characters other than '/' and '.' from i to j - 1 that starts the path or
\* follows a '/', a dot at j, one of the extensions, and the end or a dot
regex_search(extensions, path) ==
    \E i \in 1..Len(path), j \in 1..Len(path), ext \in alternatives(extensions) :
        /\ i = 1 \/ path[i - 1] = "/"
        /\ i < j
        /\ \A k \in i..(j - 1) : path[k] # "/" /\ path[k] # "."
        /\ path[j] = "."
        /\ j + Len(ext) <= Len(path)
        /\ SubSeq(path, j + 1, j + Len(ext)) = ext
        /\ \/ j + Len(ext) = Len(path)
           \/ path[j + Len(ext) + 1] = "."

\* no mimetype given
NoMimetype == ""

\* list(tpl.iter_paths(mimetype)): how it ends, the paths, and the FileTypes
\* and loader registry it leaves (self.filetypes[mimetype] adds a FileType
\* for a mimetype that has none)
iter_paths(mimetype) ==
    IF mimetype = NoMimetype
    THEN With(valid_paths, LAMBDA valid :
              [err |-> valid.err, paths |-> valid.paths,
               filetypes |-> filetypes, loaders |-> valid.loaders])
    ELSE With(valid_paths, LAMBDA valid :
              LET fts == FileTypes_get(mimetype)
                  extensions == fts[FiletypeIndex(fts, mimetype)].extensions
                  Matching(path) == regex_search(extensions, path)
              IN  [err |-> valid.err, paths |-> SelectSeq(valid.paths, Matching),
                   filetypes |-> fts, loaders |-> valid.loaders])

\* list(tpl.iter_paths(mimetype))
IterPaths(mimetype) ==
    \E got \in {iter_paths(mimetype)} :
        /\ filetypes' = got.filetypes
        /\ loaders' = got.loaders
        /\ last' = [Call("iter_paths", <<mimetype>>, got.err) EXCEPT
                        !.value = IF got.err = "none" THEN got.paths ELSE <<>>]
        /\ UNCHANGED <<fallback, generic, hub, disk, threads, constructed, conf, rootdirs, engines, renderers>>

\* init(confdict) with or without a root directory
InitIterPaths ==
    /\ conf \in Confs({gz, tpl, tar_gz})
    /\ rootdirs \in {<<>>, <<root_r>>}
    /\ filetypes = configured(<<>>, conf)
    /\ loaders = [cls |-> "Loaders", items |-> <<>>]
    /\ engines = [cls |-> "Engines", items |-> <<>>]
    /\ renderers = {}
    /\ disk = InitialDisk
    /\ threads = NoThreads
    /\ constructed = <<>>
    /\ hub = NoRenderer
    /\ generic = NoRenderer
    /\ fallback = NoRenderer
    /\ last = Call("init", <<>>, "none")

NextIterPaths ==
    \/ \E m \in Mimetypes, e \in {gz, tpl} : AppendExtension(m, e)
    \/ \E l \in MockLoaders : AddLoader(gz, l, FALSE)
    \/ Finalize
    \/ \E m \in Mimetypes \cup {NoMimetype} : IterPaths(m)

SpecIterPaths == InitIterPaths /\ [][NextIterPaths]_vars

-----------------------------------------------------------------------------
(* The loaders called directly: FileSystemLoader over several root          *)
(* directories, ChainLoader and PrefixedLoader                              *)

root_t == <<"/", "r", "/", "t">>

\* the loader the calls are made on: the one registered for gz
LoaderUnderTest == loaders.items[1].value[1]

\* loader.load(path)
LoaderLoad(path) ==
    \E got \in {invoke("load", LoaderUnderTest, path)} :
        /\ last' = [Call("loader_load", path, got.err) EXCEPT
                        !.value = got.value, !.loads = got.calls]
        /\ UNCHANGED <<fallback, generic, hub, disk, threads, constructed, conf, rootdirs, filetypes, loaders,
                       engines, renderers>>

\* loader.hash(path)
LoaderHash(path) ==
    \E got \in {invoke("hash", LoaderUnderTest, path)} :
        /\ last' = [Call("loader_hash", path, got.err) EXCEPT
                        !.value = got.value, !.loads = got.calls]
        /\ UNCHANGED <<fallback, generic, hub, disk, threads, constructed, conf, rootdirs, filetypes, loaders,
                       engines, renderers>>

\* loader.is_valid(path)
LoaderIsValid(path) ==
    \E got \in {invoke("is_valid", LoaderUnderTest, path)} :
        /\ last' = [Call("loader_is_valid", path, got.err) EXCEPT
                        !.value = got.value, !.loads = got.calls]
        /\ UNCHANGED <<fallback, generic, hub, disk, threads, constructed, conf, rootdirs, filetypes, loaders,
                       engines, renderers>>

\* list(loader.iter_paths())
LoaderIterPaths ==
    \E got \in {iter_paths_of(LoaderUnderTest)} :
        /\ last' = [Call("loader_iter_paths", <<>>, got.err) EXCEPT !.value = got.paths]
        /\ UNCHANGED <<fallback, generic, hub, disk, threads, constructed, conf, rootdirs, filetypes, loaders,
                       engines, renderers>>

\* the loaders that are wrapped, the prefixes, and the loaders called
LeafLoaders == {FileSystemLoader(gz)} \cup MockLoaders
Prefixes == {<<"t", "/">>, <<"g">>}
WrappedLoaders ==
    LeafLoaders \cup {PrefixedLoader(p, l) : p \in Prefixes, l \in LeafLoaders}
LoadersUnderTest ==
    WrappedLoaders
    \cup {ChainLoader(c) : c \in UNION {[1..n -> WrappedLoaders] : n \in 0..MaxLoaders}}

\* the paths asked for: files, names that are no file, and paths that lead
\* above the root directory
LoaderPaths ==
    { <<"g", ".", "g">>, <<"t", "/", "g", ".", "g">>, <<"g", ".", "t", ".", "g">>,
      <<"t", ".", "g">>, <<"/", "g", ".", "g">>, <<".", ".">>, <<"/", ".", ".">>,
      <<".", ".", "/", ".", ".">>, <<"t", "/", ".", ".">>, <<".", ".", "/", "r">>,
      <<".", ".", "/", "g", ".">> }

\* tpl.loaders['gz'] = [loader], over one or two root directories, with the
\* two files named g.g holding the same or different contents
InitLoaders ==
    /\ conf = <<>>
    /\ rootdirs \in {<<>>, <<root_r>>, <<root_t>>, <<root_r, root_t>>, <<root_t, root_r>>}
    /\ filetypes = <<>>
    /\ loaders \in {[cls |-> "Loaders", items |-> <<[key |-> gz, value |-> <<l>>]>>]
                        : l \in LoadersUnderTest}
    /\ engines = [cls |-> "Engines", items |-> <<>>]
    /\ renderers = {}
    /\ disk \in {InitialDisk,
                 [InitialDisk EXCEPT ![<<<<"r">>, <<"t">>, <<"g", ".", "g">>>>] = "b"]}
    /\ threads = NoThreads
    /\ constructed = <<>>
    /\ hub = NoRenderer
    /\ generic = NoRenderer
    /\ fallback = NoRenderer
    /\ last = Call("init", <<>>, "none")

NextLoaders ==
    \/ \E p \in LoaderPaths : LoaderLoad(p)
    \/ \E p \in LoaderPaths : LoaderHash(p)
    \/ \E p \in LoaderPaths : LoaderIsValid(p)
    \/ LoaderIterPaths

SpecLoaders == InitLoaders /\ [][NextLoaders]_vars

-----------------------------------------------------------------------------
(* The Renderer of score/tpl/__init__.py: formats, engines, the functions,  *)
(* filters and globals of each format, and the sub-renderers               *)

\* the most registrations a sub-renderer is handed
MaxEntities == 3

Formats == {"html", "css"}
EngineExtensions == {"jinja2"}
EntityNames == {"x"}
Kinds == {"function", "filter", "global"}

\* Renderer.__init__: entities holds the functions, filters and globals of
\* the formats in the order they were added, subrenderers the dictionary of
\* the sub-renderers with what each was handed, created the
\* create_subrenderer calls
Renderer_init(rootdir) ==
    [rootdir |-> rootdir, engines |-> {}, formats |-> {}, entities |-> <<>>,
     subrenderers |-> <<>>, created |-> <<>>]

\* Renderer.register_engine
register_engine(extension) ==
    /\ IF extension \in hub.engines
       THEN /\ hub' = hub
            /\ last' = Call("register_engine", <<extension>>, "AssertionError")
       ELSE /\ hub' = [hub EXCEPT !.engines = @ \cup {extension}]
            /\ last' = Call("register_engine", <<extension>>, "none")
    /\ UNCHANGED <<fallback, generic, disk, threads, constructed, conf, rootdirs, filetypes, loaders,
                   engines, renderers>>

\* Renderer.register_format: the format gets new, empty dictionaries of
\* functions, filters and globals
register_format(name, rootdir) ==
    /\ IF ~rootdir /\ ~hub.rootdir
       THEN /\ hub' = hub
            /\ last' = Call("register_format", <<name>>, "ValueError")
       ELSE /\ hub' = [hub EXCEPT
                        !.formats = @ \cup {name},
                        !.entities = SelectSeq(@, LAMBDA e : e.format # name)]
            /\ last' = Call("register_format", <<name>>, "none")
    /\ UNCHANGED <<fallback, generic, disk, threads, constructed, conf, rootdirs, filetypes, loaders,
                   engines, renderers>>

\* Renderer.add_function, add_filter and add_global: the entity is stored
\* for the format and handed to every sub-renderer of self.subrenderers
add_entity(kind, format, name) ==
    /\ IF \/ format \notin hub.formats
          \/ \E i \in DOMAIN hub.entities :
                hub.entities[i] = [kind |-> kind, format |-> format, name |-> name]
       THEN /\ hub' = hub
            /\ last' = Call("add_" \o kind, <<format, name>>, "AssertionError")
       ELSE /\ \A i \in DOMAIN hub.subrenderers :
                  Len(hub.subrenderers[i].got) < MaxEntities
            /\ hub' = [hub EXCEPT
                        !.entities = Append(@, [kind |-> kind, format |-> format,
                                                name |-> name]),
                        !.subrenderers = [i \in DOMAIN @ |->
                            [@[i] EXCEPT !.got = Append(@,
                                [kind |-> kind, name |-> name, of |-> format])]]]
            /\ last' = Call("add_" \o kind, <<format, name>>, "none")
    /\ UNCHANGED <<fallback, generic, disk, threads, constructed, conf, rootdirs, filetypes, loaders,
                   engines, renderers>>

add_function(format, name) == add_entity("function", format, name)
add_filter(format, name) == add_entity("filter", format, name)
add_global(format, name) == add_entity("global", format, name)

\* what a new sub-renderer of the format is handed: its functions, then its
\* filters, then its globals
entities_of(format) ==
    LET Of(kind) == SelectSeq(hub.entities,
                        LAMBDA e : e.format = format /\ e.kind = kind)
        all == Of("function") \o Of("filter") \o Of("global")
    IN  [i \in DOMAIN all |->
            [kind |-> all[i].kind, name |-> all[i].name, of |-> all[i].format]]

\* Renderer.subrenderer, as render_file and render_string call it
subrenderer(format, engine) ==
    /\ IF \E i \in DOMAIN hub.subrenderers : hub.subrenderers[i].key = <<format, engine>>
       THEN /\ hub' = hub
            /\ last' = Call("subrenderer", <<format, engine>>, "none")
       ELSE IF format \notin hub.formats \/ engine \notin hub.engines
       THEN /\ hub' = hub
            /\ last' = Call("subrenderer", <<format, engine>>, "KeyError")
       ELSE /\ hub' = [hub EXCEPT
                        !.subrenderers = Append(@, [key |-> <<format, engine>>,
                                                    got |-> entities_of(format)]),
                        !.created = Append(@, <<format, engine>>)]
            /\ last' = Call("subrenderer", <<format, engine>>, "none")
    /\ UNCHANGED <<fallback, generic, disk, threads, constructed, conf, rootdirs, filetypes, loaders,
                   engines, renderers>>

\* Renderer(rootdir, cachedir, default_format), with or without a rootdir
InitRenderer ==
    /\ conf = <<>>
    /\ rootdirs = <<>>
    /\ filetypes = <<>>
    /\ loaders = [cls |-> "Loaders", items |-> <<>>]
    /\ engines = [cls |-> "Engines", items |-> <<>>]
    /\ renderers = {}
    /\ disk = InitialDisk
    /\ threads = NoThreads
    /\ constructed = <<>>
    /\ hub \in {Renderer_init(r) : r \in BOOLEAN}
    /\ generic = NoRenderer
    /\ fallback = NoRenderer
    /\ last = Call("init", <<>>, "none")

NextRenderer ==
    \/ \E e \in EngineExtensions : register_engine(e)
    \/ \E f \in Formats, r \in BOOLEAN : register_format(f, r)
    \/ \E f \in Formats, n \in EntityNames : add_function(f, n)
    \/ \E f \in Formats, n \in EntityNames : add_filter(f, n)
    \/ \E f \in Formats, n \in EntityNames : add_global(f, n)
    \/ \E f \in Formats, e \in EngineExtensions : subrenderer(f, e)

SpecRenderer == InitRenderer /\ [][NextRenderer]_vars

-----------------------------------------------------------------------------
(* _find_renderers called from concurrent contexts: the rounds of the       *)
(* contexts interleave, and within a round the test of the cache and the    *)
(* call of the engine factory are separate steps. A renderer instance is    *)
(* the number of the factory call that made it.                             *)

\* the instance the cache holds for a pair: the one stored last
cached(pair) ==
    Max({i \in DOMAIN constructed : constructed[i] = pair})

\* a context enters _find_renderers for a path whose FileType is known
Begin(t, path) ==
    /\ threads[t].pc \in {"idle", "done"}
    /\ find_filetype(path).err = "none"
    /\ threads' = [threads EXCEPT ![t] =
            [Idle EXCEPT !.pc = "test", !.filename = basename(path),
                         !.mimetype = find_filetype(path).mimetype]]
    /\ UNCHANGED <<fallback, generic, hub, conf, rootdirs, filetypes, loaders, engines, renderers, last,
                   disk, constructed>>

\* one round up to the test `filetype not in self._renderers[engine]`: the
\* candidates, the best of them, the truncation; a cached renderer is
\* appended, a missing one is left to the next step
Test(t) ==
    /\ threads[t].pc = "test"
    /\ \E cands \in {candidates(threads[t].filename)} :
        IF cands = {}
        THEN threads' = [threads EXCEPT ![t].pc = "done"]
        ELSE \E c \in {best_candidate(cands)} :
             IF <<c.engine, threads[t].mimetype>> \in renderers
             THEN threads' = [threads EXCEPT
                     ![t].filename = truncate(@, c.extension),
                     ![t].chain = Append(@, cached(<<c.engine, threads[t].mimetype>>))]
             ELSE threads' = [threads EXCEPT
                     ![t].pc = "make",
                     ![t].filename = truncate(@, c.extension),
                     ![t].pending = <<c.engine, threads[t].mimetype>>]
    /\ UNCHANGED <<fallback, generic, hub, conf, rootdirs, filetypes, loaders, engines, renderers, last,
                   disk, constructed>>

\* self._renderers[engine][filetype] = engine(self, filetype), and the
\* append of the renderer
Make(t) ==
    /\ threads[t].pc = "make"
    /\ constructed' = Append(constructed, threads[t].pending)
    /\ renderers' = renderers \cup {threads[t].pending}
    /\ threads' = [threads EXCEPT
            ![t].pc = "test",
            ![t].pending = <<>>,
            ![t].chain = Append(@, Len(constructed) + 1)]
    /\ UNCHANGED <<fallback, generic, hub, conf, rootdirs, filetypes, loaders, engines, last, disk>>

\* the names the contexts resolve: a.gz, a.tar.gz and a.gz.tar.gz
ThreadPaths ==
    { <<"g", ".", "g">>, <<"g", ".", "t", ".", "g">>,
      <<"g", ".", "g", ".", "t", ".", "g">> }

\* init(confdict), engine assignments and _finalize(), no context in a call
InitThreads ==
    /\ conf \in Confs({gz, tar_gz})
    /\ rootdirs = <<root_r>>
    /\ filetypes = configured(<<>>, conf)
    /\ loaders = finalized_loaders(conf_extensions)
    /\ engines \in FinalizedEngines(Factories)
    /\ renderers = {}
    /\ disk = InitialDisk
    /\ threads = NoThreads
    /\ constructed = <<>>
    /\ hub = NoRenderer
    /\ generic = NoRenderer
    /\ fallback = NoRenderer
    /\ last = Call("init", <<>>, "none")

NextThreads ==
    \E t \in Threads :
        \/ \E p \in ThreadPaths : Begin(t, p)
        \/ Test(t)
        \/ Make(t)

SpecThreads == InitThreads /\ [][NextThreads]_vars

-----------------------------------------------------------------------------
(* _finalize called again *)

FinalizeExts == {gz, tpl, tar_gz}

\* the last call was a _finalize that returned
JustFinalized == last.op = "finalize" /\ last.err = "none"

\* tpl._finalize() right after a _finalize that returned: the set of
\* extensions is built from the same strings by the same insertions and is
\* iterated as it was, in one of the orders that sort to the registry the
\* first call left
FinalizeAgain ==
    /\ JustFinalized
    /\ \E order \in {o \in Orders(all_extensions) :
                        sorted_len_reverse(o) = Keys(loaders)} :
        \E got \in {finalize(order)} :
            /\ loaders' = got.loaders
            /\ engines' = got.engines
            /\ last' = [Call("finalize", <<>>, got.err) EXCEPT !.value = <<"again">>]
            /\ UNCHANGED <<fallback, generic, hub, disk, threads, constructed, conf, rootdirs, filetypes, renderers>>

InitFinalize ==
    /\ conf \in Confs({gz, tpl})
    /\ rootdirs \in {<<>>, <<root_r>>}
    /\ filetypes = configured(<<>>, conf)
    /\ loaders = [cls |-> "Loaders", items |-> <<>>]
    /\ engines = [cls |-> "Engines", items |-> <<>>]
    /\ renderers = {}
    /\ disk = InitialDisk
    /\ threads = NoThreads
    /\ constructed = <<>>
    /\ hub = NoRenderer
    /\ generic = NoRenderer
    /\ fallback = NoRenderer
    /\ last = Call("init", <<>>, "none")

NextFinalize ==
    \/ \E m \in Mimetypes, e \in FinalizeExts : AppendExtension(m, e)
    \/ \E e \in FinalizeExts, f \in Factories : engines_setitem(e, f)
    \/ \E e \in FinalizeExts, l \in MockLoaders : AddLoader(e, l, TRUE)
    \/ ~JustFinalized /\ Finalize
    \/ FinalizeAgain

SpecFinalize == InitFinalize /\ [][NextFinalize]_vars

-----------------------------------------------------------------------------
(* The Renderer of score/tpl/fallback.py: the add_* calls it keeps until    *)
(* its backends are set, and the calls the renderer of each backend gets    *)

\* the most add_* calls made on the Renderer
MaxCalls == 3

\* the aliases of the backend modules, and the lists given as conf.backends
\* (init asserts that the list is not empty)
Aliases == {"a", "b"}
BackendLists == {<<"a">>, <<"a", "b">>, <<"b", "a">>, <<"a", "a">>}

\* the calls: the name of the method and its arguments; escape_output is
\* the keyword argument of add_function and add_filter
AddCalls ==
    [func : {"add_function", "add_filter"}, format : {"html"}, name : {"x", "y"},
     escape_output : BOOLEAN]
    \cup [func : {"add_global"}, format : {"html"}, name : {"x", "y"},
          escape_output : {TRUE}]

\* ConfiguredTplFallbackModule.__init__ and Renderer.__init__: self._calls
\* is empty and there is no attribute _backends; got[b] is what the
\* renderer of the backend module b has been called with
fallback_init(backends) ==
    [conf_backends |-> backends, calls |-> <<>>, backends |-> Unset,
     got |-> [b \in Aliases |-> <<>>]]

\* for backend in self._backends.values(): backend.renderer.<func>(...),
\* for the calls of a list in turn
forward(r, keys, calls) ==
    [r EXCEPT !.got =
        [b \in Aliases |-> IF InList(b, keys) THEN r.got[b] \o calls ELSE r.got[b]]]

\* add_function, add_filter, add_global: handed on to the backends when
\* there is an attribute _backends, appended to self._calls otherwise
fallback_add(r, call) ==
    IF r.backends # Unset
    THEN forward(r, r.backends, <<call>>)
    ELSE [r EXCEPT !.calls = Append(@, call)]

\* the keys of the OrderedDict filled from conf.backends, as far as the
\* given dictionary has them: a key set again keeps its place
RECURSIVE filled(_, _, _)
filled(aliases, given, keys) ==
    IF aliases = <<>> THEN [err |-> "none", keys |-> keys]
    ELSE IF Head(aliases) \notin given THEN [err |-> "KeyError", keys |-> keys]
    ELSE filled(Tail(aliases), given,
                IF InList(Head(aliases), keys) THEN keys
                ELSE Append(keys, Head(aliases)))

\* _set_backends without the last statement
set_backends_keeping_calls(r, given) ==
    With(filled(r.conf_backends, given, <<>>), LAMBDA dict :
         IF dict.err # "none"
         THEN [err |-> dict.err, renderer |-> [r EXCEPT !.backends = dict.keys]]
         ELSE [err |-> "none",
               renderer |-> forward([r EXCEPT !.backends = dict.keys],
                                    dict.keys, r.calls)])

\* Renderer._set_backends(backends): self._backends is filled (a missing
\* alias ends the call with what was filled), every kept call is made on
\* every backend, the calls in turn, and self._calls is emptied
set_backends(r, given) ==
    With(filled(r.conf_backends, given, <<>>), LAMBDA dict :
         IF dict.err # "none"
         THEN [err |-> dict.err, renderer |-> [r EXCEPT !.backends = dict.keys]]
         ELSE [err |-> "none",
               renderer |-> [forward([r EXCEPT !.backends = dict.keys],
                                     dict.keys, r.calls)
                                EXCEPT !.calls = <<>>]])

\* the add_* calls made so far, at most
CallsMade ==
    Len(fallback.calls) + Max({Len(fallback.got[b]) : b \in Aliases})

\* renderer.add_function(...), renderer.add_filter(...), renderer.add_global(...)
FallbackAdd(call) ==
    /\ CallsMade < MaxCalls
    /\ fallback' = fallback_add(fallback, call)
    /\ last' = [Call(call.func, <<call.name>>, "none") EXCEPT !.found = <<call>>]
    /\ UNCHANGED <<generic, hub, disk, threads, constructed, conf, rootdirs, filetypes, loaders, engines, renderers>>

\* ConfiguredTplFallbackModule._finalize(**kwargs)
SetBackends(given) ==
    \E got \in {set_backends(fallback, given)} :
        /\ fallback' = got.renderer
        /\ last' = Call("_set_backends", <<>>, got.err)
        /\ UNCHANGED <<generic, hub, disk, threads, constructed, conf, rootdirs, filetypes, loaders, engines, renderers>>

InitFallback ==
    /\ conf = <<>>
    /\ rootdirs = <<>>
    /\ filetypes = <<>>
    /\ loaders = [cls |-> "Loaders", items |-> <<>>]
    /\ engines = [cls |-> "Engines", items |-> <<>>]
    /\ renderers = {}
    /\ disk = InitialDisk
    /\ threads = NoThreads
    /\ constructed = <<>>
    /\ hub = NoRenderer
    /\ generic = NoRenderer
    /\ fallback \in {fallback_init(backends) : backends \in BackendLists}
    /\ last = Call("init", <<>>, "none")

NextFallback ==
    \/ \E call \in AddCalls : FallbackAdd(call)
    \/ \E given \in SUBSET Aliases : SetBackends(given)

SpecFallback == InitFallback /\ [][NextFallback]_vars

-----------------------------------------------------------------------------
(* The claims *)

\* _finalize has completed: it has replaced the registries
Finalized == loaders.cls = "OrderedDict"

\* two distinct FileTypes declare the same extension
SharedExtension ==
    \E j, k \in DOMAIN filetypes :
        j # k /\ ExtSet(filetypes[j]) \cap ExtSet(filetypes[k]) # {}

\* a loader key or an engine key is the extension of no FileType
StrayKey ==
    \/ \E i \in DOMAIN loaders.items : loaders.items[i].key \notin all_extensions
    \/ \E i \in DOMAIN engines.items : engines.items[i].key \notin all_extensions

\* C1: whenever _finalize is called while two distinct FileTypes declare the
\* same extension, it fails with a ConfigurationError.
C1_SharedExtensionIsConfigurationError ==
    (last.op = "finalize" /\ SharedExtension) => last.err = "ConfigurationError"

\* C2: whenever _finalize is called while a loader key or an engine key is
\* the extension of no FileType, it fails with a ConfigurationError; when it
\* succeeds, every loader key and every engine key is some FileType's extension.
C2_StrayKeyIsConfigurationError ==
    /\ (last.op = "finalize" /\ StrayKey) => last.err = "ConfigurationError"
    /\ (last.op = "finalize" /\ last.err = "none") => ~StrayKey

\* C3: once _finalize has completed, adding an extension, a postprocessor or
\* a global to a FileType fails and leaves every FileType as it was.
C3_FileTypesLockedAfterFinalize ==
    [][(Finalized /\ last'.op \in {"append_extension", "append_postprocessor",
                                   "define_global"})
        => /\ last'.err # "none"
           /\ \A k \in DOMAIN filetypes : filetypes'[k] = filetypes[k]]_vars

\* C4: once _finalize has completed, assigning an engine factory to an
\* extension fails, and the engine registry keeps its content and order.
C4_EnginesLockedAfterFinalize ==
    [][Finalized => /\ engines' = engines
                    /\ last'.op = "engines_setitem" => last'.err # "none"]_vars

\* C5: assigning an engine factory to an extension that already has one, or
\* to an extension with a slash, fails and leaves the engine registry as it was.
C5_EngineReassignmentFails ==
    [][(/\ last'.op = "engines_setitem"
        /\ HasKey(engines, last'.arg) \/ HasChar(last'.arg, "/"))
        => (last'.err # "none" /\ engines' = engines)]_vars

\* the keys come in non-increasing order of length
LongestFirst(keys) ==
    \A i, j \in DOMAIN keys : i < j => Len(keys[i]) >= Len(keys[j])

\* C6: when _finalize has succeeded, the keys of the loader registry and the
\* keys of the engine registry are in non-increasing order of length.
C6_KeysLongestFirst ==
    (last.op = "finalize" /\ last.err = "none")
        => (LongestFirst(Keys(loaders)) /\ LongestFirst(Keys(engines)))

\* a successful _finalize that had keys of different lengths to order, in
\* both registries
C6_Witness ==
    /\ last.op = "finalize" /\ last.err = "none"
    /\ Keys(loaders) = <<tar_gz, gz>>
    /\ Keys(engines) = <<tar_gz, gz>>

\* the longest string of a set of strings of different lengths
LongestIn(S) == CHOOSE x \in S : \A y \in S : Len(y) <= Len(x)

\* the strings that start right after the first dot of a name and end right
\* before a later dot, or at the end of the name
DottedPrefixes(name) ==
    LET d == FirstIndexOf(name, ".")
    IN  IF d = 0 THEN {}
        ELSE {SubSeq(name, d + 1, e - 1) :
                e \in {k \in (d + 1)..(Len(name) + 1) :
                          k = Len(name) + 1 \/ name[k] = "."}}

\* the strings that start right after one of the dots of a name and run to
\* its end
DottedSuffixes(name) ==
    {SubSeq(name, d + 1, Len(name)) : d \in {k \in 1..Len(name) : name[k] = "."}}

\* C7: the mimetype of a path is that of the FileType that lists the longest
\* extension made of the leading dot-separated parts after the first dot of
\* the basename; with no such FileType the lookup fails with TemplateNotFound.
C7_LongestFiletypeExtension ==
    last.op = "mimetype" =>
        LET owned == {x \in DottedPrefixes(basename(last.arg)) :
                        \E k \in DOMAIN filetypes : InList(x, filetypes[k].extensions)}
        IN  IF owned = {} THEN last.err = "TemplateNotFound"
            ELSE /\ last.err = "none"
                 /\ \E k \in DOMAIN filetypes :
                        /\ filetypes[k].mimetype = last.value[1]
                        /\ InList(LongestIn(owned), filetypes[k].extensions)

\* a.tar.gz, with tar.gz and gz the extensions of different FileTypes, has the
\* mimetype of tar.gz
C7_Witness ==
    /\ last.op = "mimetype" /\ last.err = "none"
    /\ last.arg = <<"g", ".", "t", ".", "g">>
    /\ \E j, k \in DOMAIN filetypes :
          /\ j # k
          /\ InList(gz, filetypes[j].extensions)
          /\ InList(tar_gz, filetypes[k].extensions)
          /\ last.value = <<filetypes[k].mimetype>>

\* C8: the loader key of a path is the longest part of the basename that
\* starts right after one of its dots and is a key of the loader registry,
\* and the loader comes from that key's list; with no dot or no such key the
\* lookup fails with TemplateNotFound.
C8_LongestLoaderSuffix ==
    last.op = "find_loader" =>
        LET keys == {x \in DottedSuffixes(basename(last.arg)) : HasKey(loaders, x)}
        IN  IF keys = {} THEN last.value = None /\ last.err = "TemplateNotFound"
            ELSE /\ last.value = <<LongestIn(keys)>>
                 /\ last.err = "none"
                      => InList(last.found[1], Get(loaders, LongestIn(keys)))

\* a.tar.gz, with gz a loader key and tar.gz not, resolves to the gz loaders
C8_Witness ==
    /\ last.op = "find_loader" /\ last.err = "none"
    /\ last.arg = <<"g", ".", "t", ".", "g">>
    /\ HasKey(loaders, gz) /\ ~HasKey(loaders, tar_gz)
    /\ last.value = <<gz>>
    /\ InList(last.found[1], Get(loaders, gz))

\* the path of the last call resolves to a loader list
ListAsked ==
    /\ \/ last.op = "load"
       \/ last.op = "render" /\ find_filetype(last.arg).err = "none"
    /\ find_loader_key(last.arg) # None

\* the loader list the path of the last call resolves to
ListOfLast == Get(loaders, find_loader_key(last.arg)[1])

C10_FallsBackToLaterLoader ==
    (/\ last.op = "render" /\ ListAsked /\ Len(ListOfLast) = 2
     /\ is_valid(ListOfLast[1], last.arg)
     /\ loader_load(ListOfLast[1], last.arg).err = "TemplateNotFound"
     /\ loader_load(ListOfLast[2], last.arg).err = "none")
        => /\ last.err = "none"
           /\ Len(SelectSeq(last.loads, LAMBDA c : c.on = ListOfLast[1])) = 1

\* the places of name where an occurrence of '.key' ends
OccurrenceEnds(name, key) ==
    {e \in 1..Len(name) : /\ e - Len(key) >= 1
                          /\ SubSeq(name, e - Len(key), e) = <<".">> \o key}

\* the engine extensions that occur in name behind a dot
Occurring(name) == {k \in Range(Keys(engines)) : OccurrenceEnds(name, k) # {}}

\* the engine extensions with an occurrence that ends right-most in name
EndingRightmost(name) ==
    {k \in Occurring(name) :
        Max(UNION {OccurrenceEnds(name, j) : j \in Occurring(name)})
            \in OccurrenceEnds(name, k)}

\* the renderer of the engine registered for key, for the FileType of path
RendererOf(key, path) == <<Get(engines, key), find_filetype(path).mimetype>>

\* name is stem.suffix with a stem that is not empty and has no dot
StemAnd(name, suffix) ==
    /\ Len(name) > Len(suffix) + 1
    /\ SubSeq(name, Len(name) - Len(suffix), Len(name)) = <<".">> \o suffix
    /\ ~HasChar(SubSeq(name, 1, Len(name) - Len(suffix) - 1), ".")

\* C11: the renderer chain of a name starts with the renderer of the longest
\* of the engine extensions whose occurrence ends right-most in the name; so
\* with engines for tar.gz and gz the chain of a.tar.gz holds the tar.gz
\* renderer and not the gz renderer (a renderer belongs to an engine, so the
\* gz renderer is told apart where the gz engine serves no other extension).
C11_LongestSuffixAtRightmostEnd ==
    (last.op = "find_renderers" /\ last.err = "none") =>
        LET name == basename(last.arg)
        IN  /\ Occurring(name) = {} => last.value = <<>>
            /\ Occurring(name) # {} =>
                  /\ last.value # <<>>
                  /\ last.value[1] = RendererOf(LongestIn(EndingRightmost(name)), last.arg)
            /\ (StemAnd(name, tar_gz) /\ HasKey(engines, tar_gz) /\ HasKey(engines, gz)) =>
                  /\ InList(RendererOf(tar_gz, last.arg), last.value)
                  /\ (\A k \in Range(Keys(engines)) \ {gz} :
                          Get(engines, k) # Get(engines, gz))
                        => ~InList(RendererOf(gz, last.arg), last.value)

\* a.tar.gz resolved with different engines for tar.gz and gz
C11_Witness ==
    /\ last.op = "find_renderers" /\ last.err = "none"
    /\ last.arg = <<"g", ".", "t", ".", "g">>
    /\ HasKey(engines, tar_gz) /\ HasKey(engines, gz)
    /\ Get(engines, gz) # Get(engines, tar_gz)
    /\ last.value = <<RendererOf(tar_gz, last.arg)>>

\* C12: for a name stem.e1.e2 with e1 and e2 engine extensions, chain
\* resolution returns exactly two renderers, the one of e2's engine and then
\* the one of e1's engine.
C12_TwoSuffixesTwoRenderers ==
    last.op = "find_renderers" =>
        \A e1, e2 \in Range(Keys(engines)) :
            StemAnd(basename(last.arg), e1 \o <<".">> \o e2) =>
                /\ last.err = "none"
                /\ last.value = <<RendererOf(e2, last.arg), RendererOf(e1, last.arg)>>

\* C13: a render call constructs a renderer only for an (engine, FileType)
\* pair that has none yet, once, and every renderer it uses is the one the
\* cache holds for the pair; the cache never loses or replaces an entry, so a
\* second render of a path constructs nothing.
C13_RendererMadeOncePerPair ==
    [][last'.op = "render" =>
        /\ \A i \in DOMAIN last'.made : last'.made[i] \notin renderers
        /\ \A i, j \in DOMAIN last'.made : i # j => last'.made[i] # last'.made[j]
        /\ renderers' = renderers \cup Range(last'.made)
        /\ \A i \in DOMAIN last'.rendering : last'.rendering[i].renderer \in renderers'
        /\ (last.op = "render" /\ last.arg = last'.arg /\ last.err = "none")
              => last'.made = <<>>]_vars

\* a render that ran a renderer taken from the cache and made none
C13_Witness ==
    /\ last.op = "render" /\ last.err = "none"
    /\ last.rendering # <<>>
    /\ last.made = <<>>
    /\ Cardinality(renderers) = 2

\* C14: however the contexts interleave, the engine factory is called once
\* for an (engine, FileType) pair, and all chains hold one and the same
\* renderer instance for the pair.
C14_OneConstructionPerPair ==
    /\ \A i, j \in DOMAIN constructed : constructed[i] = constructed[j] => i = j
    /\ \A t, u \in Threads :
          \A i \in DOMAIN threads[t].chain, j \in DOMAIN threads[u].chain :
              constructed[threads[t].chain[i]] = constructed[threads[u].chain[j]]
                  => threads[t].chain[i] = threads[u].chain[j]

\* the last call is a render whose FileType was found and whose loader
\* returned something
Loaded ==
    /\ last.op = "render"
    /\ find_filetype(last.arg).err = "none"
    /\ last.loads # <<>>
    /\ loader_load(last.loads[1].on, last.arg).err = "none"

\* what the loader of the last render returned
LoadedIsFile == loader_load(last.loads[1].on, last.arg).is_file
LoadedContent ==
    IF LoadedIsFile THEN Located(loader_load(last.loads[1].on, last.arg).result)
    ELSE Inline(loader_load(last.loads[1].on, last.arg).result)

\* the renderer chain of the last render
ChainOfLast == find_renderers(last.arg, find_filetype(last.arg).mimetype).chain

\* C15: in render, only the first renderer of the chain receives a file
\* location, through render_file, and only when the loader returned one;
\* every other call is render_string on the previous renderer's output; with
\* an empty chain a file location is read and its content is the result.
C15_FirstRendererGetsTheFile ==
    Loaded =>
        /\ \A i \in DOMAIN last.rendering :
              /\ last.rendering[i].renderer = ChainOfLast[i]
              /\ last.rendering[i].method =
                    IF i = 1 /\ LoadedIsFile THEN "render_file" ELSE "render_string"
              /\ i = 1 => last.rendering[i].input = LoadedContent
              /\ i > 1 => last.rendering[i].input =
                    Append(last.rendering[i - 1].input,
                           [step |-> last.rendering[i - 1].method,
                            by   |-> last.rendering[i - 1].renderer])
        /\ last.err = "none" =>
              /\ Len(last.rendering) = Len(ChainOfLast)
              /\ (ChainOfLast = <<>> /\ LoadedIsFile) =>
                    /\ Len(last.value) >= 2
                    /\ last.value[1] = LoadedContent[1]
                    /\ last.value[2] =
                          [step |-> "read", by |-> <<disk[abspath(LoadedContent[1].by)]>>]
              /\ (ChainOfLast # <<>> \/ ~LoadedIsFile) =>
                    \A i \in DOMAIN last.value : last.value[i].step # "read"

\* a file rendered by two renderers: render_file, then render_string
C15_Witness ==
    /\ Loaded /\ last.err = "none" /\ LoadedIsFile
    /\ Len(last.rendering) = 2
    /\ last.rendering[1].method = "render_file"
    /\ last.rendering[2].method = "render_string"
    /\ last.rendering[1].renderer # last.rendering[2].renderer

\* the postprocessors of the FileType of the last render
PostprocessorsOfLast ==
    filetypes[FiletypeIndex(filetypes, find_filetype(last.arg).mimetype)].postprocessors

\* the postprocessor steps of a value, in order
PostprocessorSteps(value) ==
    SelectSeq(value, LAMBDA x : x.step = "postprocessor")

\* a successful render ran the whole chain, then the postprocessors of the
\* FileType in the order of its list, or none of them when
\* apply_postprocessors is false
PostprocessorsApplied ==
    (Loaded /\ last.err = "none") =>
        /\ Len(SelectSeq(last.value, LAMBDA x : x.step \in {"render_file", "render_string"}))
              = Len(ChainOfLast)
        /\ \A i, j \in DOMAIN last.value :
              (i < j /\ last.value[i].step = "postprocessor")
                  => last.value[j].step = "postprocessor"
        /\ PostprocessorSteps(last.value) =
              IF last.apply
              THEN [i \in DOMAIN PostprocessorsOfLast |->
                      [step |-> "postprocessor", by |-> <<PostprocessorsOfLast[i]>>]]
              ELSE <<>>

\* C16: render applies the postprocessors of the FileType in registration
\* order, after the whole renderer chain and only when apply_postprocessors
\* is true; a postprocessor that was appended and then removed is not invoked.
C16_PostprocessorsInOrder ==
    /\ []PostprocessorsApplied
    /\ [][(/\ last.op = "pop_postprocessor"
           /\ last'.op = "render"
           /\ find_filetype(last'.arg).err = "none"
           /\ find_filetype(last'.arg).mimetype = last.value[2])
             => \A i \in DOMAIN last'.value :
                   last'.value[i] # [step |-> "postprocessor", by |-> <<last.value[1]>>]]_vars

\* a render through a renderer and then through two postprocessors
C16_Witness ==
    /\ Loaded /\ last.err = "none" /\ last.apply
    /\ ChainOfLast # <<>>
    /\ PostprocessorsOfLast = <<"upper", "strip">>
    /\ Len(PostprocessorSteps(last.value)) = 2

\* C17: when a renderer of the chain raises, render fails with that error,
\* no later renderer and no postprocessor runs and nothing is returned; a
\* render that returns has run the whole chain and all the postprocessors.
C17_RendererErrorEndsRender ==
    Loaded =>
        /\ \A i \in DOMAIN last.rendering :
              last.rendering[i].renderer[1] \in Raising =>
                  /\ last.err = "RenderError"
                  /\ last.value = <<>>
                  /\ i = Len(last.rendering)
        /\ last.err = "none" =>
              /\ Len(last.rendering) = Len(ChainOfLast)
              /\ last.apply => Len(PostprocessorSteps(last.value)) = Len(PostprocessorsOfLast)

\* a chain whose second renderer raised, for a FileType with a postprocessor
C17_Witness ==
    /\ Loaded /\ last.err = "RenderError" /\ last.apply
    /\ Len(last.rendering) = 2
    /\ Len(ChainOfLast) = 2
    /\ PostprocessorsOfLast # <<>>
    /\ last.value = <<>>

\* C18: render of a path whose name has the extension of no FileType fails
\* with TemplateNotFound, file or no file, before any loader is asked to load
\* and before any engine factory or renderer is called.
C18_NoFiletypeNoLoad ==
    (/\ last.op = "render"
     /\ \A x \in DottedPrefixes(basename(last.arg)) :
           \A k \in DOMAIN filetypes : ~InList(x, filetypes[k].extensions))
        => /\ last.err = "TemplateNotFound"
           /\ last.loads = <<>> /\ last.made = <<>> /\ last.rendering = <<>>
           /\ last.value = <<>>

\* a.gz.tar.gz is a file and tar.gz has loaders and an engine, but gz is the
\* extension of no FileType
C18_Witness ==
    /\ last.op = "render" /\ last.err = "TemplateNotFound"
    /\ last.arg = <<"g", ".", "g", ".", "t", ".", "g">>
    /\ find_file(last.arg) # None
    /\ find_loader(last.arg).err = "none"
    /\ engines.items # <<>>
    /\ \A k \in DOMAIN filetypes : ~InList(gz, filetypes[k].extensions)

\* the loaders registered under the loader key of the last path, if it has one
LoaderKeysOfLast ==
    {x \in DottedSuffixes(basename(last.arg)) : HasKey(loaders, x)}
LoaderListOfLast == Get(loaders, LongestIn(LoaderKeysOfLast))
ValidInListOfLast ==
    {i \in DOMAIN LoaderListOfLast : is_valid(LoaderListOfLast[i], last.arg)}

\* a hash call returns what the hash of the loader of the path returns, and
\* fails with TemplateNotFound when the path has no loader
HashIsTheLoadersHash ==
    last.op = "hash" =>
        /\ last.made = <<>> /\ last.rendering = <<>>
        /\ IF LoaderKeysOfLast = {} THEN last.err = "TemplateNotFound"
           ELSE IF ValidInListOfLast = {} THEN last.err = "TemplateNotFound"
           ELSE /\ last.err = loader_hash(LoaderListOfLast[Min(ValidInListOfLast)],
                                          last.arg).err
                /\ last.value = loader_hash(LoaderListOfLast[Min(ValidInListOfLast)],
                                            last.arg).token

\* C19: hash(path) returns the hash of the loader of the path, whether or not
\* the name has a FileType, calls no engine factory and no renderer, and
\* leaves the FileTypes, the registries and the renderer cache as they were.
C19_HashOnlyAsksTheLoader ==
    /\ []HashIsTheLoadersHash
    /\ [][last'.op = "hash" =>
            UNCHANGED <<filetypes, loaders, engines, renderers, disk>>]_vars

\* the hash of a.gz.tar.gz, a file with a loader and an engine whose name has
\* the extension of no FileType
C19_Witness ==
    /\ last.op = "hash" /\ last.err = "none"
    /\ find_filetype(last.arg).err = "TemplateNotFound"
    /\ last.value = xxh64(disk[abspath(find_file(last.arg))])
    /\ engines.items # <<>>

\* C20: a second hash of a path returns the same token when the content was
\* not changed in between, and another token when it was.
C20_TokenFollowsContent ==
    [][(last'.op = "hash" /\ last'.arg = last.arg
        /\ last.err = "none" /\ last'.err = "none")
        => /\ last.op = "hash" => last'.value = last.value
           /\ last.op = "modified" => last'.value # last.value]_vars

\* a hash of a file whose content has been modified
C20_Witness ==
    /\ last.op = "hash" /\ last.err = "none"
    /\ find_file(last.arg) # None
    /\ disk[abspath(find_file(last.arg))] # InitialDisk[abspath(find_file(last.arg))]
    /\ last.value = xxh64(disk[abspath(find_file(last.arg))])

\* the method of the last call made on the loader
MethodOfLast ==
    IF last.op = "loader_load" THEN "load"
    ELSE IF last.op = "loader_hash" THEN "hash"
    ELSE "is_valid"

\* the children of the chain loader called, and those whose own call of the
\* method with the last path does not raise TemplateNotFound
ChildrenOfLast == LoaderUnderTest.loaders
ServingChildren ==
    {i \in DOMAIN ChildrenOfLast :
        invoke(MethodOfLast, ChildrenOfLast[i], last.arg).err # "TemplateNotFound"}

\* the calls made when the first k children are asked in turn
RECURSIVE AskedInTurn(_, _)
AskedInTurn(i, k) ==
    IF i > k THEN <<>>
    ELSE <<CallOn(MethodOfLast, ChildrenOfLast[i], last.arg)>>
            \o invoke(MethodOfLast, ChildrenOfLast[i], last.arg).calls
            \o AskedInTurn(i + 1, k)

\* C21: ChainLoader.load asks its children in registration order, returns
\* what the first child that does not raise TemplateNotFound returns without
\* asking a later child, and raises TemplateNotFound only when all raised it.
C21_ChainLoadFirstSuccess ==
    (last.op = "loader_load" /\ LoaderUnderTest.cls = "ChainLoader") =>
        IF ServingChildren = {}
        THEN /\ last.err = "TemplateNotFound"
             /\ last.loads = AskedInTurn(1, Len(ChildrenOfLast))
        ELSE /\ last.err = invoke("load", ChildrenOfLast[Min(ServingChildren)], last.arg).err
             /\ last.value = invoke("load", ChildrenOfLast[Min(ServingChildren)], last.arg).value
             /\ last.loads = AskedInTurn(1, Min(ServingChildren))

\* a chain of two children with different answers, the first of which raised
\* TemplateNotFound
C21_Witness ==
    /\ last.op = "loader_load" /\ LoaderUnderTest.cls = "ChainLoader"
    /\ Len(ChildrenOfLast) = 2
    /\ ServingChildren = {2}
    /\ last.err = "none"
    /\ last.value = <<TRUE, root_r \o <<"/">> \o last.arg>>

\* C22: ChainLoader.hash returns the hash of the first child that can hash
\* the path and raises TemplateNotFound when every child raises it.
C22_ChainHashFirstSuccess ==
    (last.op = "loader_hash" /\ LoaderUnderTest.cls = "ChainLoader"
     /\ ChildrenOfLast # <<>>) =>
        IF ServingChildren = {}
        THEN last.err = "TemplateNotFound"
        ELSE /\ last.err = invoke("hash", ChildrenOfLast[Min(ServingChildren)], last.arg).err
             /\ last.value = invoke("hash", ChildrenOfLast[Min(ServingChildren)], last.arg).value

\* C23: a PrefixedLoader refuses a path without its prefix without calling
\* the wrapped loader, answers for prefix + q what the wrapped loader answers
\* for q, and enumerates prefix + q for every q the wrapped loader enumerates.
C23_PrefixedLoaderDelegates ==
    LoaderUnderTest.cls = "PrefixedLoader" =>
        /\ (last.op \in {"loader_load", "loader_hash", "loader_is_valid"}
            /\ ~startswith(last.arg, LoaderUnderTest.prefix)) =>
                /\ last.loads = <<>>
                /\ IF last.op = "loader_is_valid"
                   THEN last.err = "none" /\ last.value = <<FALSE>>
                   ELSE last.err = "TemplateNotFound"
        /\ (last.op \in {"loader_load", "loader_hash", "loader_is_valid"}
            /\ startswith(last.arg, LoaderUnderTest.prefix)) =>
                /\ last.err = invoke(MethodOfLast, LoaderUnderTest.wrapped,
                                     strip(last.arg, LoaderUnderTest.prefix)).err
                /\ last.value = invoke(MethodOfLast, LoaderUnderTest.wrapped,
                                       strip(last.arg, LoaderUnderTest.prefix)).value
        /\ (last.op = "loader_iter_paths" /\ last.err = "none") =>
                /\ iter_paths_of(LoaderUnderTest.wrapped).err = "none"
                /\ Len(last.value) = Len(iter_paths_of(LoaderUnderTest.wrapped).paths)
                /\ \A k \in DOMAIN last.value :
                      /\ last.value[k] = LoaderUnderTest.prefix
                            \o iter_paths_of(LoaderUnderTest.wrapped).paths[k]
                      /\ invoke("is_valid", LoaderUnderTest.wrapped,
                                iter_paths_of(LoaderUnderTest.wrapped).paths[k]).value
                            = <<TRUE>>
                         => invoke("is_valid", LoaderUnderTest, last.value[k]).value
                                = <<TRUE>>

\* t/g.g loaded through the prefix t/ from the file g.g of the root directory
C23_Witness ==
    /\ last.op = "loader_load" /\ LoaderUnderTest.cls = "PrefixedLoader"
    /\ LoaderUnderTest.prefix = <<"t", "/">>
    /\ last.arg = <<"t", "/", "g", ".", "g">>
    /\ rootdirs = <<root_r>>
    /\ last.value = <<TRUE, root_r \o <<"/", "g", ".", "g">>>>
    /\ last.loads = <<CallOn("load", LoaderUnderTest.wrapped, <<"g", ".", "g">>)>>

\* the location lies in one of the root directories
IsPrefix(a, b) == Len(a) <= Len(b) /\ SubSeq(b, 1, Len(a)) = a
InsideARoot(location) ==
    \E i \in DOMAIN rootdirs : IsPrefix(abspath(rootdirs[i]), abspath(location))

\* C24: FileSystemLoader.load and is_valid serve no location outside the
\* root directories, whatever the path.
C24_NothingOutsideTheRoots ==
    LoaderUnderTest.cls = "FileSystemLoader" =>
        /\ (last.op = "loader_load" /\ last.err = "none") => InsideARoot(last.value[2])
        /\ (last.op = "loader_is_valid" /\ last.value = <<TRUE>>) =>
              InsideARoot(find_file(last.arg))

\* the root directories, in order, that hold the path
RootsHolding(path) ==
    {i \in DOMAIN rootdirs :
        /\ ~startswith_pardir(relpath(rootdirs[i] \o <<"/">> \o lstrip(path), rootdirs[i]))
        /\ exists(rootdirs[i] \o <<"/">> \o lstrip(path))}

\* the relative paths of the files below a root whose name ends with
\* '.extension'
FilesBelow(rootdir, extension) ==
    {join("/", SubSeq(f, Len(abspath(rootdir)) + 1, Len(f))) :
        f \in {g \in DiskFiles :
                  /\ Len(g) > Len(abspath(rootdir))
                  /\ IsPrefix(abspath(rootdir), g)
                  /\ Len(g[Len(g)]) > Len(extension)
                  /\ SubSeq(g[Len(g)], Len(g[Len(g)]) - Len(extension), Len(g[Len(g)]))
                        = <<".">> \o extension}}

\* C25: with several root directories load returns the file of the first
\* root that holds the path, and iter_paths yields every relative path once,
\* also one that several roots hold.
C25_EarlierRootShadowsLater ==
    LoaderUnderTest.cls = "FileSystemLoader" =>
        /\ last.op = "loader_load" =>
              IF RootsHolding(last.arg) = {} THEN last.err = "TemplateNotFound"
              ELSE /\ last.err = "none"
                   /\ last.value = <<TRUE, rootdirs[Min(RootsHolding(last.arg))]
                                            \o <<"/">> \o lstrip(last.arg)>>
        /\ last.op = "loader_iter_paths" =>
              /\ last.err = "none"
              /\ \A i, j \in DOMAIN last.value : i # j => last.value[i] # last.value[j]
              /\ Range(last.value) =
                    UNION {FilesBelow(rootdirs[i], LoaderUnderTest.extension)
                              : i \in DOMAIN rootdirs}

\* g.g, held by both roots, loaded from the first one, /r/t
C25_Witness ==
    /\ last.op = "loader_load" /\ LoaderUnderTest.cls = "FileSystemLoader"
    /\ rootdirs = <<root_t, root_r>>
    /\ RootsHolding(last.arg) = {1, 2}
    /\ last.value = <<TRUE, root_t \o <<"/", "g", ".", "g">>>>

\* the extensions of the FileType of a mimetype, none when it has no FileType
ExtensionsOf(mimetype) ==
    IF HasFiletype(mimetype)
    THEN Range(filetypes[FiletypeIndex(filetypes, mimetype)].extensions)
    ELSE {}

\* one of the extensions stands in the path right behind 'name.', where name
\* is a segment start without dot and slash, and ends at a dot or at the end
\* of the path: the segments are split at the dots
OwnedBy(path, extensions) ==
    \E n \in DOMAIN split(path, "/") :
        LET segments == split(path, "/")
            parts    == split(segments[n], ".")
        IN  /\ parts[1] # <<>>
            /\ \E k \in 2..Len(parts) :
                  /\ join(".", SubSeq(parts, 2, k)) \in extensions
                  /\ k < Len(parts) \/ n = Len(segments)

\* what iter_paths() yields in this state
AllValidPaths == Range(iter_paths(NoMimetype).paths)

EnumeratedPaths ==
    UNION {Range(iter_paths_of(l).paths) :
              l \in UNION {Range(Get(loaders, e)) :
                              e \in {x \in all_extensions : HasKey(loaders, x)}}}

\* C27: iter_paths() yields the paths that a loader of a FileType extension
\* enumerates and whose FileType is found; a path without one is left out
\* and no TemplateNotFound reaches the caller; without any FileType
\* extension nothing is yielded.
C27_IterPathsSkipsUnclassified ==
    (last.op = "iter_paths" /\ last.arg = <<NoMimetype>>) =>
        /\ last.err # "TemplateNotFound"
        /\ last.err = "none" =>
              /\ Range(last.value) =
                    {path \in EnumeratedPaths : find_filetype(path).err = "none"}
              /\ all_extensions = {} => last.value = <<>>

\* g.gz is yielded and g.tpl.gz, which the gz loader enumerates as well, is not
C27_Witness ==
    /\ last.op = "iter_paths" /\ last.arg = <<NoMimetype>> /\ last.err = "none"
    /\ <<"g", ".", "t", ".", "g">> \in EnumeratedPaths
    /\ InList(<<"g", ".", "g">>, last.value)
    /\ ~InList(<<"g", ".", "t", ".", "g">>, last.value)

\* the FileTypes that a step gives a global more
GivenAGlobal(before, after) ==
    {k \in DOMAIN after :
        IF k \in DOMAIN before
        THEN Len(after[k].globals) > Len(before[k].globals)
        ELSE after[k].globals # <<>>}

\* C28: define_global for a mimetype hands the definition to the renderer
\* instances of that mimetype which the cache holds already, besides storing
\* it on the FileType.
C28_GlobalReachesCachedRenderers ==
    [][(last'.op = "define_global" /\ last'.err = "none") =>
          /\ GivenAGlobal(filetypes, filetypes') # {}
          /\ \A k \in GivenAGlobal(filetypes, filetypes'), r \in renderers :
                r[2] = filetypes'[k].mimetype =>
                    \E i \in DOMAIN last'.rendering :
                        /\ last'.rendering[i].renderer = r
                        /\ last'.rendering[i].method = "add_global"]_vars

\* C29: no sub-renderer of a format holds a function, filter or global that
\* was registered for another format.
C29_EntitiesStayInTheirFormat ==
    \A i \in DOMAIN hub.subrenderers :
        \A j \in DOMAIN hub.subrenderers[i].got :
            hub.subrenderers[i].got[j].of = hub.subrenderers[i].key[1]

\* C30: one sub-renderer at most is created per (format, engine), and no
\* sub-renderer is handed two registrations of one kind under one name.
C30_OneSubrendererNoCollision ==
    /\ \A i, j \in DOMAIN hub.created : i # j => hub.created[i] # hub.created[j]
    /\ \A i \in DOMAIN hub.subrenderers :
          \A j, k \in DOMAIN hub.subrenderers[i].got :
              (/\ j # k
               /\ hub.subrenderers[i].got[j].kind = hub.subrenderers[i].got[k].kind)
                  => hub.subrenderers[i].got[j].name # hub.subrenderers[i].got[k].name


\* the file that load returned to the context is gone
Vanished(t) ==
    /\ threads[t].pc \in {"hash", "render"}
    /\ threads[t].pending[1].got.is_file
    /\ abspath(threads[t].pending[1].got.result) \in DiskFiles
    /\ ~Present(abspath(threads[t].pending[1].got.result))

\* the module itself opens the file: Loader.hash always, render when no
\* renderer takes the file
ModuleReads(t) ==
    \/ threads[t].pc = "hash"
    \/ /\ threads[t].pc = "render"
       /\ find_renderers(threads[t].filename, threads[t].mimetype).err = "none"
       /\ find_renderers(threads[t].filename, threads[t].mimetype).chain = <<>>

\* C31: when the file that the loader found is removed before hash digests it
\* or render reads it, the call ends with TemplateNotFound: with no other
\* error and with no value
C31_VanishedFileIsNotFound ==
    [][\A t \in Threads :
          (Vanished(t) /\ ModuleReads(t) /\ threads'[t].pc = "idle")
              => last'.err = "TemplateNotFound"]_vars

\* the same for hash alone, whose open() is inside a try block
HashOfVanishedFileIsNotFound ==
    [][\A t \in Threads :
          (Vanished(t) /\ threads[t].pc = "hash" /\ threads'[t].pc = "idle")
              => (last'.err = "TemplateNotFound" /\ last'.value = <<>>)]_vars


\* a loader made of the three loader classes only, with no mock inside
RECURSIVE MockFree(_)
MockFree(loader) ==
    IF loader.cls = "ChainLoader"
    THEN \A i \in DOMAIN loader.loaders : MockFree(loader.loaders[i])
    ELSE IF loader.cls = "PrefixedLoader" THEN MockFree(loader.wrapped)
    ELSE loader.cls = "FileSystemLoader"

\* C32: for a FileSystemLoader, a ChainLoader and a PrefixedLoader, and every
\* path, is_valid(path) is true exactly when load(path) returns, the two
\* being called in the same state: what is_valid answered is what load does
\* now, and how load ended is what is_valid answers now.
C32_IsValidIffLoadSucceeds ==
    MockFree(LoaderUnderTest) =>
        /\ last.op = "loader_is_valid" =>
               /\ last.err = "none"
               /\ last.value \in {<<TRUE>>, <<FALSE>>}
               /\ (last.value = <<TRUE>>)
                      <=> (invoke("load", LoaderUnderTest, last.arg).err = "none")
        /\ last.op = "loader_load" =>
               /\ last.err \in {"none", "TemplateNotFound"}
               /\ (last.err = "none")
                      <=> (invoke("is_valid", LoaderUnderTest, last.arg).value = <<TRUE>>)

\* a chain whose first child refuses the path by its prefix and whose second
\* child has it is asked whether the path is valid
C32_Witness ==
    /\ last.op = "loader_is_valid"
    /\ MockFree(LoaderUnderTest)
    /\ LoaderUnderTest.cls = "ChainLoader"
    /\ Len(LoaderUnderTest.loaders) = 2
    /\ LoaderUnderTest.loaders[1].cls = "PrefixedLoader"
    /\ invoke("is_valid", LoaderUnderTest.loaders[1], last.arg).value = <<FALSE>>
    /\ last.value = <<TRUE>>


\* the names of the globals of a FileType, in the order of their definition
GlobalNamesOf(filetype) == [i \in DOMAIN filetype.globals |-> filetype.globals[i].name]

\* the globals of the FileType at place k before a step: none when the step
\* made the FileType
GlobalsBefore(k) == IF k \in DOMAIN filetypes THEN filetypes[k].globals ELSE <<>>

\* C33: the globals of one FileType never share a name, whatever calls of
\* define_global / add_global are made: a call either appends one
\* definition whose name the FileType did not have, to one FileType, or it
\* fails and leaves the globals of every FileType as they were.
C33_GlobalNamesUnique ==
    /\ [](\A k \in DOMAIN filetypes :
            \A i, j \in DOMAIN filetypes[k].globals :
                i # j => filetypes[k].globals[i].name # filetypes[k].globals[j].name)
    /\ [][last'.op = "define_global" =>
            IF last'.err = "none"
            THEN \E k \in DOMAIN filetypes' :
                    /\ Len(filetypes'[k].globals) = Len(GlobalsBefore(k)) + 1
                    /\ SubSeq(filetypes'[k].globals, 1, Len(GlobalsBefore(k))) = GlobalsBefore(k)
                    /\ ~InList(filetypes'[k].globals[Len(filetypes'[k].globals)].name,
                               [i \in DOMAIN GlobalsBefore(k) |-> GlobalsBefore(k)[i].name])
                    /\ \A j \in DOMAIN filetypes' \ {k} :
                           filetypes'[j].globals = GlobalsBefore(j)
            ELSE /\ last'.err = "AssertionError"
                 /\ \A k \in DOMAIN filetypes' : filetypes'[k].globals = GlobalsBefore(k)]_vars

\* a definition was refused by a FileType that is not locked and holds the
\* name, while another FileType holds the same name too
C33_Witness ==
    /\ last.op = "define_global" /\ last.err = "AssertionError"
    /\ \A k \in DOMAIN filetypes : ~filetypes[k].finalized
    /\ \E k, j \in DOMAIN filetypes :
          /\ k # j
          /\ GlobalNamesOf(filetypes[k]) = <<"x">>
          /\ GlobalNamesOf(filetypes[j]) = <<"x">>


\* the list that an access to the registry under the key gets: the one kept
\* under the key, or a new one, empty without root directories and holding
\* the file system loader of the key with them
ListAccessed(key) ==
    IF HasKey(loaders, key) THEN Get(loaders, key)
    ELSE IF rootdirs = <<>> THEN <<>>
    ELSE <<[cls |-> "FileSystemLoader", extension |-> key, load |-> "file"]>>

\* C34: before finalize, the first access to the loader registry under an
\* extension makes the list of the extension and keeps it: empty when no
\* root directory is configured, one FileSystemLoader of that extension
\* otherwise. Every later access returns the list that is kept, with the
\* loaders that were inserted into it; the lists of the other extensions
\* stay as they are.
C34_LoaderListMadeOnFirstAccess ==
    [][(loaders.cls = "Loaders" /\ last'.op \in {"loaders_getitem", "add_loader"}) =>
          IF last'.err # "none"
          THEN HasChar(last'.arg, "/") /\ last'.err = "ValueError" /\ loaders' = loaders
          ELSE /\ loaders'.cls = "Loaders"
               /\ HasKey(loaders', last'.arg)
               /\ last'.op = "loaders_getitem" =>
                      /\ last'.found = ListAccessed(last'.arg)
                      /\ Get(loaders', last'.arg) = ListAccessed(last'.arg)
               /\ last'.op = "add_loader" =>
                      \E l \in MockLoaders :
                          Get(loaders', last'.arg) \in
                              {<<l>> \o ListAccessed(last'.arg),
                               Append(ListAccessed(last'.arg), l)}
               /\ \A k \in Range(Keys(loaders')) \ {last'.arg} :
                      HasKey(loaders, k) /\ Get(loaders', k) = Get(loaders, k)
               /\ \A k \in Range(Keys(loaders)) : HasKey(loaders', k)]_vars

\* an access returns the file system loader that the first access made and,
\* before it, a loader that was inserted since
C34_Witness ==
    /\ last.op = "loaders_getitem" /\ last.err = "none"
    /\ loaders.cls = "Loaders"
    /\ Len(last.found) = 2
    /\ last.found[1].cls = "Mock"
    /\ last.found[2] = [cls |-> "FileSystemLoader", extension |-> last.arg, load |-> "file"]


\* the step is a render of the GenericRenderer
GenericRenders == last'.op \in {"render_string", "render_file"}

Dots(name) == Cardinality({i \in DOMAIN name : name[i] = "."})

\* C36: _find_renderers ends for every file name and every engine registry,
\* names with an empty stem included: every round of its loop leaves a
\* shorter file name, and the chain returned has no more renderers than the
\* file name has dots.
C36_ChainResolutionTerminates ==
    last.op = "find_renderers" =>
        /\ last.err # "hang"
        /\ last.err = "none" => Len(last.value) <= Dots(basename(last.arg))


\* the basename of the last path, split at its first dot
PartsOfLast == split1(basename(last.arg), ".")

\* C37, as claimed: after finalize, a path for which loader resolution finds
\* a loader key has a FileType: mimetype(path) and render(path) do not fail
\* with TemplateNotFound for the lack of one.
C37_LoaderKeyImpliesFiletype ==
    (last.op = "mimetype" /\ find_loader_key(last.arg) # None) => last.err = "none"

\* C37, amended: after finalize, a path whose loader key is the whole of its
\* basename behind the first dot, found without folding a part into the
\* stem, has a FileType, the one that lists the key as an extension.
C37_UnfoldedLoaderKeyImpliesFiletype ==
    (/\ last.op = "mimetype"
     /\ Len(PartsOfLast) = 2
     /\ find_loader_key(last.arg) = <<PartsOfLast[2]>>) =>
        /\ last.err = "none"
        /\ \E k \in DOMAIN filetypes :
              /\ filetypes[k].mimetype = last.value[1]
              /\ InList(PartsOfLast[2], filetypes[k].extensions)

\* the mimetype of a.tar.gz is asked for, with tar.gz and tar the extensions
\* of different FileTypes and both loader keys
C37_Witness ==
    /\ last.op = "mimetype" /\ last.err = "none"
    /\ last.arg = <<"g", ".", "t", ".", "g">>
    /\ find_loader_key(last.arg) = <<tar_gz>>
    /\ HasKey(loaders, tpl)
    /\ \E j, k \in DOMAIN filetypes :
          /\ j # k
          /\ InList(tpl, filetypes[j].extensions)
          /\ InList(tar_gz, filetypes[k].extensions)
          /\ last.value = <<filetypes[k].mimetype>>


\* C38: every path that iter_paths(mimetype) yields has, by _find_filetype,
\* the FileType of that mimetype, so that no path is yielded for two
\* mimetypes; also with the extensions t and t.g in different FileTypes and
\* with dots in a directory name.
C38_IterPathsOfMimetypeResolveToIt ==
    (last.op = "iter_paths" /\ last.err = "none" /\ last.arg # <<NoMimetype>>) =>
        \A n \in DOMAIN last.value :
            /\ find_filetype(last.value[n]).err = "none"
            /\ find_filetype(last.value[n]).mimetype = last.arg[1]


\* C39: a second _finalize with no registration in between returns and
\* leaves the FileTypes, the loader registry (keys, their order, the loader
\* lists) and the engine registry (keys, their order, the factories) as the
\* first call left them; after a _finalize that returned the loader registry
\* has one entry for every extension of a FileType and no other key.
C39_FinalizeIsIdempotent ==
    /\ [](JustFinalized =>
            /\ Range(Keys(loaders)) = all_extensions
            /\ Len(loaders.items) = Cardinality(all_extensions))
    /\ [][(JustFinalized /\ last'.op = "finalize") =>
            /\ last'.err = "none"
            /\ filetypes' = filetypes
            /\ loaders' = loaders
            /\ engines' = engines]_vars

\* a second _finalize has returned with two extensions of one length in the
\* loader registry and two in the engine registry
C39_Witness ==
    /\ JustFinalized /\ last.value = <<"again">>
    /\ Keys(loaders) \in {<<gz, tpl>>, <<tpl, gz>>}
    /\ Range(Keys(engines)) = {gz, tpl}
    /\ \E i \in DOMAIN loaders.items : loaders.items[i].value # <<>>


\* the step is a call of add_function, add_filter or add_global on the
\* fallback Renderer
FallbackAdds ==
    last'.op \in {"add_function", "add_filter", "add_global"} /\ fallback' # fallback

\* C40: an add_function, add_filter or add_global call on the fallback
\* Renderer made before the backends are set is appended to the kept calls
\* and reaches no backend; when the backends are set, every configured
\* backend gets the kept calls, each once and in the order they were made,
\* and no call is kept any more; a call made once the backends are set goes
\* to every backend at once and is not kept.
C40_CallsKeptUntilBackendsAreSet ==
    [][/\ (FallbackAdds /\ fallback.backends = Unset) =>
             /\ fallback'.calls = Append(fallback.calls, last'.found[1])
             /\ fallback'.got = fallback.got
             /\ fallback'.backends = Unset
       /\ (last'.op = "_set_backends" /\ last'.err = "none") =>
             /\ Range(fallback'.backends) = Range(fallback.conf_backends)
             /\ \A b \in Aliases :
                   fallback'.got[b] =
                       IF InList(b, fallback.conf_backends)
                       THEN fallback.got[b] \o fallback.calls
                       ELSE fallback.got[b]
             /\ fallback'.calls = <<>>
       /\ (FallbackAdds /\ fallback.backends # Unset) =>
             /\ \A b \in Aliases :
                   fallback'.got[b] =
                       IF InList(b, fallback.backends)
                       THEN Append(fallback.got[b], last'.found[1])
                       ELSE fallback.got[b]
             /\ fallback'.calls = fallback.calls]_vars

\* two calls were kept, the backends a and b were set, a third call was
\* made: each backend has got the three calls in the order they were made
C40_Witness ==
    /\ fallback # NoRenderer
    /\ fallback.backends \in {<<"a", "b">>, <<"b", "a">>}
    /\ fallback.calls = <<>>
    /\ last.op = "add_global"
    /\ \A b \in Aliases :
          /\ Len(fallback.got[b]) = 3
          /\ fallback.got[b][1].func = "add_function" /\ fallback.got[b][1].name = "x"
          /\ fallback.got[b][2].func = "add_filter" /\ fallback.got[b][2].name = "y"
          /\ fallback.got[b][3].func = "add_global"

=============================================================================
